---- MODULE Spec2Model ----
(***************************************************************************)
(* A model of the farad automatic-differentiation package:                 *)
(*   farad/rnode.py  reverse mode: the Rnode computational graph           *)
(*   farad/dual.py   forward mode: the Dual number algebra                 *)
(*   farad/elem.py   the elementary functions over both                    *)
(*   farad/optim.py  the SGD parameter update                              *)
(*                                                                         *)
(* Numbers.  Python numbers are modelled as exact rationals <<n, d>> in    *)
(* lowest terms with d > 0; floating-point rounding is not modelled.  A    *)
(* rational with d = 1 stands for a Python int or an integral float.       *)
(***************************************************************************)
EXTENDS Integers, Sequences, FiniteSets, TLC

(***************************************************************************)
(* Bounds of the model                                                     *)
(***************************************************************************)
\* the number of Rnode objects ever constructed in one behaviour
MaxNodes == 4
\* the largest |numerator| and denominator of a value an operator may produce
MaxAbs == 6
\* saturation of the counter of sum evaluations per node
EvalCap == 2
\* the number of edges one node's children list may hold
MaxEdges == 3
\* the number of Rnode objects when every operator of Rnode is in play
MaxOpNodes == 3
\* the number of steps of the optimiser
MaxSteps == 2
\* the most values one AutoDiff object collects
MaxVals == 4
\* the most forwardpass calls on one RAutoDiff object
MaxCalls == 2

(***************************************************************************)
(* Rational arithmetic                                                     *)
(***************************************************************************)
Abs(i) == IF i < 0 THEN -i ELSE i

RECURSIVE Gcd(_, _)
Gcd(a, b) == IF b = 0 THEN a ELSE Gcd(b, a % b)

\* the rational n/d in lowest terms, d /= 0
Norm(n, d) ==
    LET g == Gcd(Abs(n), Abs(d))
        s == IF d < 0 THEN -1 ELSE 1
    IN  <<(s * n) \div g, (s * d) \div g>>

Q(i) == <<i, 1>>
Zero == Q(0)
One == Q(1)

QAdd(p, q) == Norm(p[1] * q[2] + q[1] * p[2], p[2] * q[2])
QNeg(p) == <<-p[1], p[2]>>
QSub(p, q) == QAdd(p, QNeg(q))
QMul(p, q) == Norm(p[1] * q[1], p[2] * q[2])
\* q /= Zero
QDiv(p, q) == Norm(p[1] * q[2], p[2] * q[1])
QLt(p, q) == p[1] * q[2] < q[1] * p[2]
QLe(p, q) == p[1] * q[2] <= q[1] * p[2]

\* p ** k for a natural exponent k
RECURSIVE QPowNat(_, _)
QPowNat(p, k) == IF k = 0 THEN One ELSE QMul(p, QPowNat(p, k - 1))

\* p ** k for an integer exponent k (p /= Zero when k < 0)
QPow(p, k) == IF k >= 0 THEN QPowNat(p, k) ELSE QDiv(One, QPowNat(p, -k))

(***************************************************************************)
(* Values numpy computes                                                   *)
(*                                                                         *)
(* The functions of numpy (np.sin, np.log, ...) and ** with a fractional   *)
(* exponent are uninterpreted: their result is the term naming the         *)
(* function and its argument, and so is every number computed from such a  *)
(* result.  A term is a sequence of integers in prefix form, longer than a *)
(* rational <<n, d>>: the code of the function, then its arguments, a      *)
(* rational argument as <<0, n, d>>.  Two terms are equal exactly when the *)
(* same functions were applied to the same arguments, up to the order of   *)
(* the operands of + and *, and up to x * 1, x / 1 and 0 + x, which        *)
(* floating-point arithmetic computes exactly.                             *)
(***************************************************************************)
NpNames == <<"sin", "cos", "tan", "log", "log10", "log2", "sinh", "cosh",
             "tanh", "exp", "sqrt", "arcsin", "arccos", "arctan",
             "add", "mul", "div", "pow", "neg">>

Code(name) == CHOOSE i \in 1..Len(NpNames) : NpNames[i] = name

IsRat(t) == Len(t) = 2

\* a number as the argument of a term
Leaf(t) == IF IsRat(t) THEN <<0>> \o t ELSE t

\* np.<name>(t)
Np(name, t) == <<Code(name)>> \o Leaf(t)

Bin(name, s, t) == <<Code(name)>> \o Leaf(s) \o Leaf(t)

\* an order on terms, to write the operands of + and * in one order
RECURSIVE SeqLess(_, _)
SeqLess(s, t) ==
    IF s = <<>> THEN t # <<>>
    ELSE IF t = <<>> THEN FALSE
    ELSE IF Head(s) # Head(t) THEN Head(s) < Head(t)
    ELSE SeqLess(Tail(s), Tail(t))

\* rationals before terms
Before(s, t) ==
    IF IsRat(s) # IsRat(t) THEN IsRat(s) ELSE SeqLess(s, t)

TAdd(s, t) ==
    IF IsRat(s) /\ IsRat(t) THEN QAdd(s, t)
    ELSE IF s = Zero THEN t
    ELSE IF t = Zero THEN s
    ELSE IF Before(s, t) THEN Bin("add", s, t) ELSE Bin("add", t, s)

TNeg(t) == IF IsRat(t) THEN QNeg(t) ELSE Np("neg", t)

TSub(s, t) == TAdd(s, TNeg(t))

TMul(s, t) ==
    IF IsRat(s) /\ IsRat(t) THEN QMul(s, t)
    ELSE IF s = One THEN t
    ELSE IF t = One THEN s
    ELSE IF Before(s, t) THEN Bin("mul", s, t) ELSE Bin("mul", t, s)

\* t /= Zero
TDiv(s, t) ==
    IF IsRat(s) /\ IsRat(t) THEN QDiv(s, t)
    ELSE IF t = One THEN s
    ELSE Bin("div", s, t)

\* s ** e for a rational exponent e (s /= Zero when e < 0)
TPow(s, e) ==
    IF IsRat(s) /\ e[2] = 1 THEN QPow(s, e[1]) ELSE Bin("pow", s, e)

(***************************************************************************)
(* Reverse mode: farad/rnode.py                                            *)
(***************************************************************************)
\* Python's None (grad_value before it is computed or seeded)
None == <<>>

\* the values an input node is constructed with
InputVals == {Q(2)}
\* the plain numbers used as the constant operand of an operator
Consts == {Q(3)}
\* the plain exponents used with **
Exps == {2}

VARIABLES
    nodes,   \* the Rnode objects, in construction order: value, children, grad_value
    inputs,  \* the nodes the caller constructed itself, x = Rnode(v)
    evals,   \* history: per node, sum evaluations by grad() since its last clear()
    summed,  \* history: per node, the number of edges its last sum evaluation added
    recycled, \* history: the nodes whose clear() discarded a gradient grad() had summed
    ret      \* history: the node and the value returned, when the last call was a grad()

rvars == <<nodes, inputs, evals, summed, recycled, ret>>

NodeIds == 1..Len(nodes)

\* Rnode.__init__: value, children = [], grad_value = None
Rnode(v) == [value |-> v, children |-> <<>>, grad_value |-> None]

InBounds(v) == Abs(v[1]) <= MaxAbs /\ v[2] <= MaxAbs

\* the last call was no grad()
NoCall == [n |-> 0, v |-> None]

RInit ==
    /\ nodes = <<>>
    /\ inputs = {}
    /\ evals = <<>>
    /\ summed = <<>>
    /\ recycled = {}
    /\ ret = NoCall

\* z = Rnode(...) inside an operator: the new node joins the nodes ns, to
\* which the operator has appended its edges
Construct(ns, z) ==
    /\ Len(nodes) < MaxNodes
    /\ InBounds(z.value)
    /\ \A i \in NodeIds : Len(ns[i].children) <= MaxEdges
    /\ nodes' = Append(ns, z)
    /\ evals' = Append(evals, 0)
    /\ summed' = Append(summed, 0)
    /\ ret' = NoCall
    /\ UNCHANGED <<inputs, recycled>>

\* an append that records the edge twice
AppendEdgeTwice(ns, a, w) ==
    [ns EXCEPT ![a].children =
        Append(Append(@, <<w, Len(nodes) + 1>>), <<w, Len(nodes) + 1>>)]

\* an append whose edge points back to the node it is recorded on
AppendEdgeBack(ns, a, w) ==
    [ns EXCEPT ![a].children = Append(@, <<w, a>>)]

\* an append that puts the new edge in front of the recorded ones
AppendEdgeFront(ns, a, w) ==
    [ns EXCEPT ![a].children = <<<<w, Len(nodes) + 1>>>> \o @]

\* self.children.append((w, z)) where z is the node about to be constructed
AppendEdge(ns, a, w) ==
    [ns EXCEPT ![a].children = Append(@, <<w, Len(nodes) + 1>>)]

\* x = Rnode(v): the caller constructs an input node
NewRnode(v) ==
    /\ Len(nodes) < MaxNodes
    /\ nodes' = Append(nodes, Rnode(v))
    /\ evals' = Append(evals, 0)
    /\ summed' = Append(summed, 0)
    /\ ret' = NoCall
    /\ UNCHANGED recycled
    /\ inputs' = inputs \cup {Len(nodes) + 1}

\* the value of node a
Val(a) == nodes[a].value

\* Rnode.__add__ with an Rnode operand: weight 1. on both operands
Add(a, b) ==
    Construct(AppendEdge(AppendEdge(nodes, a, One), b, One),
              Rnode(QAdd(Val(a), Val(b))))

\* Rnode.__add__ with a plain number (the except branch), also __radd__
AddConst(a, c) ==
    Construct(AppendEdge(nodes, a, One),
              Rnode(QAdd(Val(a), c)))

\* Rnode.__sub__ with an Rnode operand: weight 1. on self, -1. on x
Sub(a, b) ==
    Construct(AppendEdge(AppendEdge(nodes, a, One), b, QNeg(One)),
              Rnode(QSub(Val(a), Val(b))))

\* the node and edge of self.__sub__(x) for a plain number x
SubConstNode(a, c) == Rnode(QSub(Val(a), c))
SubConstEdges(a, c) == AppendEdge(nodes, a, One)

\* Rnode.__sub__ with a plain number (the except branch)
SubConst(a, c) ==
    Construct(SubConstEdges(a, c), SubConstNode(a, c))

\* Rnode.__rsub__, called for c - a with a plain number c:
\* return self.__sub__(x)
RSub(c, a) ==
    Construct(SubConstEdges(a, c), SubConstNode(a, c))

\* edges that hold each operand's own value as its weight
MulEdgesOwnValue(a, b) == AppendEdge(AppendEdge(nodes, a, Val(a)), b, Val(b))

\* Rnode.__mul__ with an Rnode operand: weight x.value on self, self.value on x
MulEdges(a, b) == AppendEdge(AppendEdge(nodes, a, Val(b)), b, Val(a))
Mul(a, b) ==
    Construct(MulEdges(a, b), Rnode(QMul(Val(a), Val(b))))

\* Rnode.__mul__ with a plain number (the except branch), also __rmul__
MulConst(a, c) ==
    Construct(AppendEdge(nodes, a, c),
              Rnode(QMul(Val(a), c)))

\* Rnode.__pow__ with a plain exponent p: weight p * self.value ** (p - 1.)
PowConst(a, p) ==
    Construct(AppendEdge(nodes, a, QMul(Q(p), QPow(Val(a), p - 1))),
              Rnode(QPow(Val(a), p)))

\* Rnode.__pow__ with an Rnode operand of integer value: weight
\* x.value * self.value ** (x.value - 1.) on self and
\* self.value ** x.value * np.log(self.value) on x (0 to a negative power
\* raises ZeroDivisionError before an edge is appended)
Pow(a, b) ==
    /\ Val(b)[2] = 1
    /\ Val(a) = Zero => Val(b)[1] >= 1
    /\ Construct(AppendEdge(AppendEdge(nodes, a,
                                       QMul(Val(b), QPow(Val(a), Val(b)[1] - 1))),
                            b, TMul(QPow(Val(a), Val(b)[1]), Np("log", Val(a)))),
                 Rnode(QPow(Val(a), Val(b)[1])))

\* Rnode.__rpow__, called for c ** a with a plain number c, on a node of
\* integer value: weight c ** self.value * np.log(c)
RPow(c, a) ==
    /\ Val(a)[2] = 1
    /\ c = Zero => Val(a)[1] >= 0
    /\ Construct(AppendEdge(nodes, a, TMul(QPow(c, Val(a)[1]), Np("log", c))),
                 Rnode(QPow(c, Val(a)[1])))

\* Rnode.__truediv__ with an Rnode operand: weight 1./x.value on self and
\* - self.value / (x.value)**2 on x (a division by zero raises
\* ZeroDivisionError before the node is constructed)
Truediv(a, b) ==
    /\ Val(b) # Zero
    /\ Construct(AppendEdge(AppendEdge(nodes, a, QDiv(One, Val(b))),
                            b, QDiv(QNeg(Val(a)), QMul(Val(b), Val(b)))),
                 Rnode(QDiv(Val(a), Val(b))))

\* Rnode.__truediv__ with a plain number (the except branch)
TruedivConst(a, c) ==
    /\ c # Zero
    /\ Construct(AppendEdge(nodes, a, QDiv(One, c)), Rnode(QDiv(Val(a), c)))

\* Rnode.__rtruediv__, called for c / a with a plain number c: weight
\* - x / (self.value)**2
RTruediv(c, a) ==
    /\ Val(a) # Zero
    /\ Construct(AppendEdge(nodes, a, QDiv(QNeg(c), QMul(Val(a), Val(a)))),
                 Rnode(QDiv(c, Val(a))))

\* a seeding that unsets the gradient cached in every other node
SeedInvalidates(n) ==
    /\ nodes[n].children = <<>>
    /\ nodes' = [i \in NodeIds |->
                     [nodes[i] EXCEPT !.grad_value =
                                         IF i = n THEN One ELSE None]]
    /\ ret' = NoCall
    /\ UNCHANGED <<inputs, evals, summed, recycled>>

\* z.grad_value = 1.0, the assignment that seeds the backward pass
\* on an output node: one no operator has consumed
Seed(n) ==
    /\ nodes[n].children = <<>>
    /\ nodes' = [nodes EXCEPT ![n].grad_value = One]
    /\ ret' = NoCall
    /\ UNCHANGED <<inputs, evals, summed, recycled>>

\* the history that clear() on node n leaves
ClearHistory(n) ==
    /\ evals' = [evals EXCEPT ![n] = 0]
    /\ summed' = [summed EXCEPT ![n] = 0]
    /\ recycled' = IF evals[n] > 0 THEN recycled \cup {n} ELSE recycled
    /\ ret' = NoCall
    /\ UNCHANGED inputs

\* a clear() that empties the children and keeps the cached gradient
ClearKeepsGrad(n) ==
    /\ n \in inputs
    /\ nodes' = [nodes EXCEPT ![n].children = <<>>]
    /\ ClearHistory(n)

\* a clear() that empties every node of the graph
ClearEveryNode(n) ==
    /\ n \in inputs
    /\ nodes' = [i \in NodeIds |->
                     [nodes[i] EXCEPT !.children = <<>>, !.grad_value = None]]
    /\ ClearHistory(n)

\* Rnode.clear: children = [], grad_value = None
\* called on an input node before it is reused
Clear(n) ==
    /\ n \in inputs
    /\ nodes' = [nodes EXCEPT ![n].children = <<>>, ![n].grad_value = None]
    /\ ClearHistory(n)

Bump(k) == IF k < EvalCap THEN k + 1 ELSE k

RECURSIVE GradRec(_, _), GradSum(_, _, _, _)

\* a grad() that sums again whenever the node has children, and returns the
\* cached value only for a node without children
GradRecRefresh(st, n) ==
    IF st.g[n] # None /\ nodes[n].children = <<>>
    THEN st
    ELSE LET r == GradSum(st, nodes[n].children, 1, Zero)
         IN  [g |-> [r.st.g EXCEPT ![n] = r.sum],
              ev |-> [r.st.ev EXCEPT ![n] = Bump(@)],
              sm |-> [r.st.sm EXCEPT ![n] = Len(nodes[n].children)]]

\* a grad() that takes 1 for the gradient of an output node nobody seeded
GradRecSeedsOutput(st, n) ==
    IF st.g[n] # None
    THEN st
    ELSE IF nodes[n].children = <<>>
    THEN [st EXCEPT !.g[n] = One]
    ELSE LET r == GradSum(st, nodes[n].children, 1, Zero)
         IN  [g |-> [r.st.g EXCEPT ![n] = r.sum],
              ev |-> [r.st.ev EXCEPT ![n] = Bump(@)],
              sm |-> [r.st.sm EXCEPT ![n] = Len(nodes[n].children)]]

\* Rnode.grad on node n, from the cached gradients g and the histories ev, sm:
\*   if self.grad_value is None:
\*       self.grad_value = sum(weight * var.grad() for weight, var in self.children)
\*   return self.grad_value
GradRec(st, n) ==
    IF st.g[n] # None
    THEN st
    ELSE LET r == GradSum(st, nodes[n].children, 1, Zero)
         IN  [g |-> [r.st.g EXCEPT ![n] = r.sum],
              ev |-> [r.st.ev EXCEPT ![n] = Bump(@)],
              sm |-> [r.st.sm EXCEPT ![n] = Len(nodes[n].children)]]

\* a sum that forgets the weight of each edge
GradSumNoWeight(st, ch, i, acc) ==
    IF i > Len(ch)
    THEN [st |-> st, sum |-> acc]
    ELSE LET st2 == GradRec(st, ch[i][2])
         IN  GradSum(st2, ch, i + 1, TAdd(acc, st2.g[ch[i][2]]))

\* sum(weight * var.grad() for weight, var in self.children): the edges
\* ch[i..], left to right, added to acc; each var.grad() may cache gradients
GradSum(st, ch, i, acc) ==
    IF i > Len(ch)
    THEN [st |-> st, sum |-> acc]
    ELSE LET st2 == GradRec(st, ch[i][2])
         IN  GradSum(st2, ch, i + 1, TAdd(acc, TMul(ch[i][1], st2.g[ch[i][2]])))

GradValues == [i \in NodeIds |-> nodes[i].grad_value]

\* x.grad(): the whole recursive call, every gradient it caches included
Grad(n) ==
    LET r == GradRec([g |-> GradValues, ev |-> evals, sm |-> summed], n)
    IN  /\ nodes' = [i \in NodeIds |-> [nodes[i] EXCEPT !.grad_value = r.g[i]]]
        /\ evals' = r.ev
        /\ summed' = r.sm
        /\ ret' = [n |-> n, v |-> r.g[n]]
        /\ UNCHANGED <<inputs, recycled>>

(***************************************************************************)
(* Forward mode: farad/dual.py                                             *)
(*                                                                         *)
(* A Python number carries its type, since a list multiplied by an int is  *)
(* repeated and a list multiplied by a float raises TypeError.  A          *)
(* derivative is a Python number ("num"), a Python list of numbers         *)
(* ("list") or a numpy array ("ndarray"), with its entries in x.  A call   *)
(* that raises is the derivative of kind the name of the exception.        *)
(***************************************************************************)
Py(t, q) == [t |-> t, q |-> q]
PyInt(i) == Py("int", Q(i))
PyFloat(q) == Py("float", q)
PyFloat64(q) == Py("float64", q)

\* the type of the result of +, - and * on two numbers
Join(s, t) ==
    IF "float64" \in {s, t} THEN "float64"
    ELSE IF "float" \in {s, t} THEN "float"
    ELSE "int"

PAdd(a, b) == Py(Join(a.t, b.t), TAdd(a.q, b.q))
PSub(a, b) == Py(Join(a.t, b.t), TSub(a.q, b.q))
PMul(a, b) == Py(Join(a.t, b.t), TMul(a.q, b.q))
PNeg(a) == Py(a.t, TNeg(a.q))
\* a / b, b /= 0: true division never returns an int
PDiv(a, b) ==
    Py(IF Join(a.t, b.t) = "int" THEN "float" ELSE Join(a.t, b.t), TDiv(a.q, b.q))
\* a ** b (a /= 0 when b < 0): an int for an int to a natural power
PPow(a, b) ==
    Py(IF Join(a.t, b.t) = "int" /\ b.q[1] < 0 THEN "float" ELSE Join(a.t, b.t),
       TPow(a.q, b.q))

Num(q) == [k |-> "num", x |-> <<q>>]
List(s) == [k |-> "list", x |-> s]
Ndarray(s) == [k |-> "ndarray", x |-> s]
Raise(e) == [k |-> e, x |-> <<>>]
Raised(d) == d.k \in {"TypeError", "ValueError", "ZeroDivisionError"}

\* np.asarray(der)
AsArray(d) == IF d.k = "list" THEN Ndarray(d.x) ELSE d

\* numpy's broadcasting of two one-dimensional operands
Broadcasts(xs, ys) == Len(xs) = Len(ys) \/ Len(xs) = 1 \/ Len(ys) = 1

\* s + t or s - t
Arith(op, s, t) == IF op = "add" THEN TAdd(s, t) ELSE TSub(s, t)

Zip(op, xs, ys) ==
    IF Len(xs) = Len(ys) THEN [i \in 1..Len(xs) |-> Arith(op, xs[i], ys[i])]
    ELSE IF Len(xs) = 1 THEN [i \in 1..Len(ys) |-> Arith(op, xs[1], ys[i])]
    ELSE [i \in 1..Len(xs) |-> Arith(op, xs[i], ys[1])]

\* d + e or d - e, element by element, when an operand is a numpy array or
\* both are numbers
NdOp(op, d, e) ==
    IF Raised(d) THEN d
    ELSE IF Raised(e) THEN e
    ELSE IF ~Broadcasts(d.x, e.x) THEN Raise("ValueError")
    ELSE [k |-> IF d.k = "num" /\ e.k = "num" THEN "num" ELSE "ndarray",
          x |-> Zip(op, d.x, e.x)]

\* d + e on two derivatives: two lists are concatenated
DerAdd(d, e) ==
    IF Raised(d) THEN d
    ELSE IF Raised(e) THEN e
    ELSE IF d.k = "list" /\ e.k = "list" THEN List(d.x \o e.x)
    ELSE IF "list" \in {d.k, e.k} /\ "num" \in {d.k, e.k} THEN Raise("TypeError")
    ELSE NdOp("add", d, e)

\* xs repeated n times: list * n
RECURSIVE Repeat(_, _)
Repeat(xs, n) == IF n <= 0 THEN <<>> ELSE xs \o Repeat(xs, n - 1)

\* w * d for a numpy number w
Scale(w, d) ==
    IF Raised(d) THEN d
    ELSE [k |-> IF d.k = "num" THEN "num" ELSE "ndarray",
          x |-> [i \in 1..Len(d.x) |-> TMul(w, d.x[i])]]

\* d / w for a numpy number w
Shrink(d, w) ==
    IF Raised(d) THEN d
    ELSE [k |-> IF d.k = "num" THEN "num" ELSE "ndarray",
          x |-> [i \in 1..Len(d.x) |-> TDiv(d.x[i], w)]]

\* d * p and p * d for a derivative d and a number p
DerTimesNum(d, p) ==
    IF Raised(d) THEN d
    ELSE IF d.k = "list" /\ p.t = "int" THEN List(Repeat(d.x, p.q[1]))
    ELSE IF d.k = "list" /\ p.t = "float" THEN Raise("TypeError")
    ELSE Scale(p.q, d)

\* d / p for a derivative d and a number p /= 0
DerDivNum(d, p) ==
    IF Raised(d) THEN d
    ELSE IF d.k = "list" /\ p.t # "float64" THEN Raise("TypeError")
    ELSE Shrink(d, p.q)

\* Dual.__init__
Dual(val, der) == [val |-> val, der |-> der]

IsZero(p) == p.q = Zero

\* Dual.__add__ with a plain number (the except branch), also __radd__
DualAddNum(s, c) == Dual(PAdd(s.val, c), s.der)


\* Dual.__mul__ with a plain number (the except branch), also __rmul__
DualMulNum(s, c) == Dual(PMul(s.val, c), DerTimesNum(s.der, c))

\* Dual.__pow__ with a plain number (the except branch)
DualPowNum(s, p) ==
    IF IsZero(s.val) /\ p.q[1] - p.q[2] < 0
    THEN Dual(s.val, Raise("ZeroDivisionError"))
    ELSE Dual(PPow(s.val, p),
              Scale(PMul(PPow(s.val, PSub(p, PyInt(1))), p).q, s.der))

\* Dual.__truediv__ with a plain number (the except branch)
DualTruedivNum(s, c) ==
    IF IsZero(c)
    THEN Dual(s.val, Raise("ZeroDivisionError"))
    ELSE Dual(PDiv(s.val, c), DerDivNum(s.der, c))

\* the forward rule of division with the operands swapped
DualRTruedivSwapped(c, s) == DualTruedivNum(s, c)

\* Dual.__rtruediv__
DualRTruedivNum(c, s) ==
    IF IsZero(s.val)
    THEN Dual(s.val, Raise("ZeroDivisionError"))
    ELSE Dual(PDiv(c, s.val),
              DerTimesNum(s.der, PNeg(PDiv(c, PPow(s.val, PyInt(2))))))


(***************************************************************************)
(* The elementary functions: farad/elem.py                                 *)
(*                                                                         *)
(* Each function tries its argument as an Rnode, then as a Dual.  The      *)
(* Rnode branch of f, on a node of value v, gives the value of the new     *)
(* node z and the weight of the edge appended to the argument, or raises.  *)
(* The Dual branch, on a Dual x, gives what f returns.  power(x, p) is     *)
(* x ** p, and sqrt of a Dual is x ** 0.5.                                 *)
(***************************************************************************)
Edge(value, weight) == [value |-> value, weight |-> weight, exc |-> ""]
Throws(e) == [value |-> None, weight |-> None, exc |-> e]

Half == <<1, 2>>
\* max(0, v)
Max0(v) == IF QLt(Zero, v) THEN v ELSE Zero
\* a choice of 0 where the condition holds and 1 where it does not
WhereInverted(cond) == IF cond THEN Zero ELSE One
\* np.where(cond, 1, 0)
Where(cond) == IF cond THEN One ELSE Zero
\* a > 6.0: a = 6.0
Clip6(a) == IF QLt(Q(6), a) THEN Q(6) ELSE a
\* 1 - v ** 2
OneMinusSquare(v) == QSub(One, QPow(v, 2))

\* 1 / (1 + np.exp(-v))
Sigmoid(v) == TDiv(One, TAdd(One, Np("exp", TNeg(v))))
\* np.exp(v) / (1 + np.exp(v)) ** 2
SigmoidSlope(v) == TDiv(Np("exp", v), TPow(TAdd(One, Np("exp", v)), Q(2)))

ElemFns == {"sin", "cos", "tan", "log", "log10", "log2", "sinh", "cosh", "tanh",
            "relu", "relu6", "logistic", "exp", "sqrt", "power", "arcsin",
            "arccos", "arctan"}

\* the Rnode branch of the function named f (p: the exponent of power);
\* 1/x.value in log and 0.5 * x.value ** (-0.5) in sqrt are Python arithmetic,
\* 1/(x.value * np.log(base)) in log10 and log2 is numpy arithmetic
RnodeBranch(f, v, p) ==
    CASE f = "sin" -> Edge(Np("sin", v), Np("cos", v))
      [] f = "cos" -> Edge(Np("cos", v), TNeg(Np("sin", v)))
      [] f = "tan" -> Edge(Np("tan", v), TDiv(One, TPow(Np("cos", v), Q(2))))
      [] f = "log" ->
            IF v = Zero THEN Throws("ZeroDivisionError")
            ELSE Edge(Np("log", v), QDiv(One, v))
      [] f = "log10" ->
            Edge(Np("log10", v), TDiv(One, TMul(v, Np("log", Q(10)))))
      [] f = "log2" ->
            Edge(Np("log2", v), TDiv(One, TMul(v, Np("log", Q(2)))))
      [] f = "sinh" -> Edge(Np("sinh", v), Np("cosh", v))
      [] f = "cosh" -> Edge(Np("cosh", v), Np("sinh", v))
      [] f = "tanh" -> Edge(Np("tanh", v), TDiv(One, TPow(Np("cosh", v), Q(2))))
      [] f = "relu" -> Edge(Max0(v), Where(QLt(Zero, Max0(v))))
      [] f = "relu6" ->
            Edge(Clip6(Max0(v)), Where(QLt(Zero, Max0(v)) /\ QLt(Max0(v), Q(6))))
      [] f = "logistic" -> Edge(Sigmoid(v), SigmoidSlope(v))
      [] f = "exp" -> Edge(Np("exp", v), Np("exp", v))
      [] f = "sqrt" ->
            IF v = Zero THEN Throws("ZeroDivisionError")
            ELSE Edge(TPow(v, Half), TMul(Half, TPow(v, QNeg(Half))))
      [] f = "power" ->
            IF v = Zero /\ p < 1 THEN Throws("ZeroDivisionError")
            ELSE Edge(QPow(v, p), QMul(Q(p), QPow(v, p - 1)))
      [] f = "arcsin" ->
            IF QLe(OneMinusSquare(v), Zero) THEN Throws("ValueError")
            ELSE Edge(Np("arcsin", v), TDiv(One, Np("sqrt", OneMinusSquare(v))))
      [] f = "arccos" ->
            IF QLe(OneMinusSquare(v), Zero) THEN Throws("ValueError")
            ELSE Edge(Np("arccos", v),
                      TDiv(QNeg(One), Np("sqrt", OneMinusSquare(v))))
      [] f = "arctan" -> Edge(Np("arctan", v), QDiv(One, QAdd(One, QPow(v, 2))))

\* the Dual branch of the function named f, for those that return a Dual
DualBranch(f, x, p) ==
    LET v == x.val.q
        Fn(name, slope) == Dual(PyFloat64(Np(name, v)), Scale(slope, x.der))
    IN  CASE f = "sin" -> Fn("sin", Np("cos", v))
          [] f = "cos" -> Fn("cos", TNeg(Np("sin", v)))
          [] f = "tan" -> Fn("tan", TDiv(One, TPow(Np("cos", v), Q(2))))
          [] f = "log" ->
                IF QLe(v, Zero) THEN Dual(x.val, Raise("ValueError"))
                ELSE Fn("log", QDiv(One, v))
          [] f = "log10" ->
                IF QLe(v, Zero) THEN Dual(x.val, Raise("ValueError"))
                ELSE Fn("log10", TDiv(One, TMul(v, Np("log", Q(10)))))
          [] f = "log2" ->
                IF QLe(v, Zero) THEN Dual(x.val, Raise("ValueError"))
                ELSE Fn("log2", TDiv(One, TMul(v, Np("log", Q(2)))))
          [] f = "sinh" -> Fn("sinh", Np("cosh", v))
          [] f = "cosh" -> Fn("cosh", Np("sinh", v))
          [] f = "tanh" ->
                Dual(PyFloat64(Np("tanh", v)),
                     Shrink(x.der, TPow(Np("cosh", v), Q(2))))
          [] f = "relu" ->
                Dual(IF QLt(Zero, v) THEN x.val ELSE PyInt(0),
                     Scale(Where(QLt(Zero, Max0(v))), x.der))
          [] f = "relu6" ->
                Dual(PyFloat(Clip6(Max0(v))),
                     Scale(Where(QLt(Zero, Max0(v)) /\ QLt(Max0(v), Q(6))), x.der))
          [] f = "exp" -> Fn("exp", Np("exp", v))
          [] f = "sqrt" -> DualPowNum(x, PyFloat(Half))
          [] f = "power" -> DualPowNum(x, PyInt(p))
          [] f = "arcsin" -> Fn("arcsin", TDiv(One, Np("sqrt", OneMinusSquare(v))))
          [] f = "arccos" ->
                Fn("arccos", TDiv(QNeg(One), Np("sqrt", OneMinusSquare(v))))
          [] f = "arctan" -> Fn("arctan", QDiv(One, QAdd(One, QPow(v, 2))))

(***************************************************************************)
(* Forward mode: the Dual objects of a program and the calls on them       *)
(***************************************************************************)
VARIABLES
    duals,  \* the Dual objects the caller constructed, in order: val, der
    out,    \* the last call on Duals, and the Dual it returned or what it raised
    sgd,    \* the SGD optimiser: params, lr, decay
    relem   \* history: the last elementary function called on an Rnode

fvars == <<duals, out, sgd>>

DualIds == 1..Len(duals)

NoNum == Py("", None)
NoDual == [val |-> NoNum, der |-> [k |-> "", x |-> <<>>]]
NoOut == [op |-> "", a |-> 0, b |-> 0, c |-> NoNum, kind |-> "", dual |-> NoDual,
          exc |-> "", tup |-> <<>>]
NoSGD == [made |-> FALSE, params |-> <<>>, lr |-> NoNum, decay |-> NoNum,
          steps |-> 0]
NoElem == [f |-> "", exc |-> ""]

\* the Python number of value v, as a literal is read: 5 an int, 5.5 a float
Literal(v) == IF v[2] = 1 THEN Py("int", v) ELSE Py("float", v)

\* the Duals an evaluation starts from: Dual(5, 1) and Dual(2, 3), with one
\* number as the derivative; Dual(3, [4, 1]) and Dual(2, [3, 1]), with a list
\* of partials; the same with a numpy array of partials
DualInputs ==
    {<<Dual(PyInt(5), Num(One)), Dual(PyInt(2), Num(Q(3)))>>,
     <<Dual(PyInt(3), List(<<Q(4), Q(1)>>)), Dual(PyInt(2), List(<<Q(3), Q(1)>>))>>,
     <<Dual(PyInt(3), Ndarray(<<Q(4), Q(1)>>)),
       Dual(PyInt(2), Ndarray(<<Q(3), Q(1)>>))>>}
\* the plain numbers used as the other operand of an operator: 5.5, 2 and 0
DualConsts == {PyFloat(<<11, 2>>), PyInt(2), PyInt(0)}
\* lr and decay of the optimiser: floats
Lrs == {PyFloat(One), PyFloat(Q(2))}
Decays == {PyFloat(Zero), PyFloat(One)}

FInit ==
    /\ duals = <<>>
    /\ out = NoOut
    /\ sgd = NoSGD

\* a call that stores the Dual it computed in its first operand
ReturnsInPlace(op, a, b, c, r) ==
    /\ duals' = IF Raised(r.der) THEN duals ELSE [duals EXCEPT ![a] = r]
    /\ out' = IF Raised(r.der)
              THEN [op |-> op, a |-> a, b |-> b, c |-> c, kind |-> "raise",
                    dual |-> NoDual, exc |-> r.der.k, tup |-> <<>>]
              ELSE [op |-> op, a |-> a, b |-> b, c |-> c, kind |-> "Dual",
                    dual |-> r, exc |-> "", tup |-> <<>>]
    /\ UNCHANGED sgd

\* the call op(a, b) or op(a, c) ends: it raises, or it returns the new Dual r;
\* the Duals it was called on are as they were
Returns(op, a, b, c, r) ==
    /\ duals' = duals
    /\ out' = IF Raised(r.der)
              THEN [op |-> op, a |-> a, b |-> b, c |-> c, kind |-> "raise",
                    dual |-> NoDual, exc |-> r.der.k, tup |-> <<>>]
              ELSE [op |-> op, a |-> a, b |-> b, c |-> c, kind |-> "Dual",
                    dual |-> r, exc |-> "", tup |-> <<>>]
    /\ UNCHANGED sgd

\* x = Dual(v, 1)
NewDual(v) ==
    /\ duals' = Append(duals, Dual(Literal(v), Num(One)))
    /\ out' = NoOut
    /\ UNCHANGED sgd

\* Dual.__add__ with a Dual operand
DAdd(a, b) ==
    LET s == duals[a]
        x == duals[b]
    IN  Returns("add", a, b, NoNum,
                Dual(PAdd(s.val, x.val), DerAdd(s.der, x.der)))
DAddNum(a, c) == Returns("add", a, 0, c, DualAddNum(duals[a], c))
\* Dual.__radd__: return self.__add__(x)
DRAddNum(c, a) == Returns("radd", a, 0, c, DualAddNum(duals[a], c))
\* Dual.__sub__ with a Dual operand
DSub(a, b) ==
    LET s == duals[a]
        x == duals[b]
    IN  Returns("sub", a, b, NoNum,
                Dual(PSub(s.val, x.val),
                     NdOp("sub", AsArray(s.der), AsArray(x.der))))
\* Dual.__sub__ with a plain number (the except branch)
DSubNum(a, c) ==
    LET s == duals[a]
        \* d - p for a derivative d and a number p
        DerMinusNum(d, p) ==
            IF Raised(d) THEN d
            ELSE IF d.k = "list" /\ p.t # "float64" THEN Raise("TypeError")
            ELSE NdOp("sub", d, Num(p.q))
    IN  Returns("sub", a, 0, c, Dual(PSub(s.val, c), DerMinusNum(s.der, c)))
\* Dual.__rsub__ with a plain number (the except branch)
DRSubNum(c, a) ==
    LET s == duals[a]
        \* p - d for a number p and a derivative d
        NumMinusDer(p, d) ==
            IF Raised(d) THEN d
            ELSE IF d.k = "list" /\ p.t # "float64" THEN Raise("TypeError")
            ELSE NdOp("sub", Num(p.q), d)
    IN  Returns("rsub", a, 0, c, Dual(PSub(c, s.val), NumMinusDer(c, s.der)))
\* Dual.__mul__ with a Dual operand
DMul(a, b) ==
    LET s == duals[a]
        x == duals[b]
    IN  Returns("mul", a, b, NoNum,
                Dual(PMul(s.val, x.val),
                     DerAdd(DerTimesNum(s.der, x.val),
                            DerTimesNum(x.der, s.val))))
DMulNum(a, c) == Returns("mul", a, 0, c, DualMulNum(duals[a], c))
\* Dual.__rmul__: return self.__mul__(x)
DRMulNum(c, a) == Returns("rmul", a, 0, c, DualMulNum(duals[a], c))
\* Dual.__truediv__ with a Dual operand
DTruediv(a, b) ==
    LET s == duals[a]
        x == duals[b]
        \* d - e on two derivatives: a list has no subtraction of its own
        DerSub(d, e) ==
            IF Raised(d) THEN d
            ELSE IF Raised(e) THEN e
            ELSE IF "list" \in {d.k, e.k} /\ "ndarray" \notin {d.k, e.k}
            THEN Raise("TypeError")
            ELSE NdOp("sub", d, e)
    IN  Returns("truediv", a, b, NoNum,
                IF IsZero(x.val)
                THEN Dual(s.val, Raise("ZeroDivisionError"))
                ELSE Dual(PDiv(s.val, x.val),
                          DerDivNum(DerSub(DerTimesNum(s.der, x.val),
                                           DerTimesNum(x.der, s.val)),
                                    PPow(x.val, PyInt(2)))))
DTruedivNum(a, c) == Returns("truediv", a, 0, c, DualTruedivNum(duals[a], c))
DRTruedivNum(c, a) == Returns("rtruediv", a, 0, c, DualRTruedivNum(c, duals[a]))
DPowNum(a, p) == Returns("pow", a, 0, PyInt(p), DualPowNum(duals[a], PyInt(p)))
\* Dual.__neg__
DNeg(a) ==
    LET \* -d
        DerNeg(d) ==
            IF Raised(d) THEN d
            ELSE IF d.k = "list" THEN Raise("TypeError")
            ELSE [k |-> d.k, x |-> [i \in 1..Len(d.x) |-> TNeg(d.x[i])]]
    IN  Returns("neg", a, 0, NoNum,
                Dual(PNeg(duals[a].val), DerNeg(duals[a].der)))
\* Dual.__pos__
DPos(a) == Returns("pos", a, 0, NoNum, Dual(duals[a].val, duals[a].der))

\* f(x) for an elementary function f and the Dual a (p: the exponent of power)
ElemDual(f, a, p) ==
    IF f = "logistic"
    THEN /\ duals' = duals
         /\ out' = [op |-> f, a |-> a, b |-> 0, c |-> NoNum, kind |-> "tuple",
                    dual |-> NoDual, exc |-> "", tup |-> <<Sigmoid(duals[a].val.q),
                                      SigmoidSlope(duals[a].val.q)>>]
         /\ UNCHANGED sgd
    ELSE Returns(f, a, 0, NoNum, DualBranch(f, duals[a], p))

\* the plain numbers an elementary function is called on: 4, 4.0 and 0
ElemNums == {PyInt(4), PyFloat(Q(4)), PyInt(0)}

\* the last branch of the function named f, on the plain number c: what
\* Python returns (a number, or the NotImplemented of int.__pow__ with a float
\* exponent, returned by c.__pow__(0.5)), or the exception it raises
PlainBranch(f, c, p) ==
    LET Number(n) == [kind |-> "number", num |-> n, exc |-> ""]
        m == IF QLt(Zero, c.q) THEN c ELSE PyInt(0)
    IN  CASE f = "relu" -> Number(m)
          [] f = "relu6" -> Number(IF QLe(m.q, Q(6)) THEN m ELSE PyInt(6))
          [] f = "logistic" -> Number(PyFloat64(Sigmoid(c.q)))
          [] f = "sqrt" ->
                IF c.t = "int"
                THEN [kind |-> "NotImplemented", num |-> NoNum, exc |-> ""]
                ELSE Number(PPow(c, PyFloat(Half)))
          [] f = "power" ->
                IF IsZero(c) /\ p < 0
                THEN [kind |-> "raise", num |-> NoNum, exc |-> "ZeroDivisionError"]
                ELSE Number(PPow(c, PyInt(p)))
          [] OTHER -> Number(PyFloat64(Np(f, c.q)))

\* f(c) for an elementary function f and the plain number c (tup: the number
\* returned)
ElemNum(f, c, p) ==
    LET r == PlainBranch(f, c, p)
    IN  /\ duals' = duals
        /\ out' = [op |-> f, a |-> 0, b |-> 0, c |-> c, kind |-> r.kind,
                   dual |-> NoDual, exc |-> r.exc,
                   tup |-> IF r.kind = "number" THEN <<r.num>> ELSE <<>>]
        /\ UNCHANGED sgd

(***************************************************************************)
(* The optimiser: farad/optim.py                                           *)
(***************************************************************************)
\* the Duals whose derivative is one number
ScalarIds == {a \in DualIds : duals[a].der.k = "num"}

\* the lists of parameters an optimiser is constructed with
ParamLists ==
    {<<a>> : a \in ScalarIds} \cup {<<a, b>> : a \in ScalarIds, b \in ScalarIds}

\* SGD.__init__
SGDNew(params, lr, decay) ==
    /\ ~sgd.made
    /\ IF QLt(lr.q, Zero) \/ QLt(One, lr.q)
       THEN /\ sgd' = sgd
            /\ out' = [NoOut EXCEPT !.op = "SGD", !.kind = "raise",
                                    !.exc = "ValueError"]
       ELSE /\ sgd' = [made |-> TRUE, params |-> params, lr |-> lr, decay |-> decay,
                        steps |-> 0]
            /\ out' = [NoOut EXCEPT !.op = "SGD", !.kind = "SGD"]
    /\ UNCHANGED duals

\* param._der += self.decay * param._der, when self.decay is not zero
Decayed(x, s) ==
    IF IsZero(s.decay) THEN x
    ELSE [x EXCEPT !.der = Num(TAdd(x.der.x[1], TMul(s.decay.q, x.der.x[1])))]

\* param._val -= self.lr * param._der
Descended(x, s) ==
    [x EXCEPT !.val = PSub(x.val, Py(s.lr.t, TMul(s.lr.q, x.der.x[1])))]

\* for param in self.params, from the i-th on, on the Duals ds
RECURSIVE StepFrom(_, _, _)
StepFrom(ds, s, i) ==
    IF i > Len(s.params) THEN ds
    ELSE StepFrom([ds EXCEPT ![s.params[i]] = Descended(Decayed(@, s), s)], s, i + 1)

\* SGD.step
SGDStep ==
    /\ sgd.made
    /\ sgd.steps < MaxSteps
    /\ duals' = StepFrom(duals, sgd, 1)
    /\ sgd' = [sgd EXCEPT !.steps = @ + 1]
    /\ out' = [NoOut EXCEPT !.op = "step", !.kind = "None"]

(***************************************************************************)
(* Reverse mode: an elementary function called on an Rnode                 *)
(***************************************************************************)
\* f(x) for an elementary function f and the node a (p: the exponent of power)
ElemRnode(f, a, p) ==
    LET e == RnodeBranch(f, Val(a), p)
    IN  /\ IF e.exc # ""
           THEN UNCHANGED <<nodes, evals, summed>>
           ELSE /\ Len(nodes) < MaxNodes
                /\ nodes' = Append(AppendEdge(nodes, a, e.weight), Rnode(e.value))
                /\ evals' = Append(evals, 0)
                /\ summed' = Append(summed, 0)
        /\ relem' = [f |-> f, exc |-> e.exc]
        /\ ret' = NoCall
        /\ UNCHANGED <<inputs, recycled>>

(***************************************************************************)
(* Operators on operands of two categories.  An operand that is no number  *)
(* is written as a Python value of type "Rnode" (q: the node) or "str"     *)
(* (q: the number of copies of "a").  An operator tries the attribute of   *)
(* its own class on the other operand, and on AttributeError takes the     *)
(* other operand for a plain number; Python then hands number + x and      *)
(* number * x to the reflected method of x.                                *)
(***************************************************************************)
\* Dual.__add__ with the Rnode n: x._val raises AttributeError, and
\* self._val + x is x.__radd__(self._val), which constructs a node
DualAddRnode(a, n) ==
    /\ Len(nodes) < MaxNodes
    /\ nodes' = Append(AppendEdge(nodes, n, One),
                       Rnode(QAdd(Val(n), duals[a].val.q)))
    /\ evals' = Append(evals, 0)
    /\ summed' = Append(summed, 0)
    /\ ret' = NoCall
    /\ UNCHANGED <<inputs, recycled, relem>>
    /\ Returns("add", a, 0, Py("Rnode", <<n>>),
               Dual(Py("Rnode", <<Len(nodes) + 1>>), duals[a].der))

\* Rnode.__mul__ of the node n with the Dual b: x.value raises AttributeError,
\* and self.value * x is x.__rmul__(self.value), a Dual; the new node holds
\* it as its value and the edge holds x as its weight
RnodeMulDual(n, b) ==
    /\ Len(nodes) < MaxNodes
    /\ nodes' = Append(AppendEdge(nodes, n, duals[b]),
                       Rnode(DualMulNum(duals[b], Literal(Val(n)))))
    /\ evals' = Append(evals, 0)
    /\ summed' = Append(summed, 0)
    /\ ret' = NoCall
    /\ UNCHANGED <<inputs, recycled, relem>>
    /\ duals' = duals
    /\ out' = [op |-> "mul", a |-> 0, b |-> b, c |-> Py("Rnode", <<n>>),
               kind |-> "Rnode", dual |-> NoDual, exc |-> "", tup |-> <<>>]
    /\ UNCHANGED sgd

\* Dual.__add__ with the str "a": self._val + x raises TypeError
DualAddStr(a) ==
    Returns("add", a, 0, Py("str", <<1>>), Dual(duals[a].val, Raise("TypeError")))

(***************************************************************************)
(* driver.py: RAutoDiff(fn).forwardpass(x)                                 *)
(***************************************************************************)
VARIABLE drv  \* the RAutoDiff object and the position of its forwardpass

\* RAutoDiff.__init__ before any forwardpass: _roots, _value, _der are None.
\* An array is its shape and its elements in row-major order; scalar tells a
\* Python number from a numpy array; None has no shape and no element, the
\* empty list the shape <<0>>.  calls and succeeded are history: the number
\* of forwardpass calls so far, and whether an earlier one has returned.
NoDrv == [pc |-> "idle", list |-> FALSE, fs |-> <<>>,
          x |-> [scalar |-> FALSE, shape |-> <<>>, data |-> <<>>],
          f |-> 0, i |-> 0, g |-> 0, roots |-> <<>>,
          tmpval |-> <<>>, tmpder |-> <<>>, vals |-> <<>>, ders |-> <<>>,
          value |-> [scalar |-> FALSE, shape |-> <<>>, data |-> <<>>],
          der |-> [scalar |-> FALSE, shape |-> <<>>, data |-> <<>>],
          exc |-> "", calls |-> 0, succeeded |-> FALSE]

\* the functions handed to RAutoDiff: lambda x: x * x, lambda x, y: x * y,
\* and lists of them; nparams is len(signature(fi).parameters)
DrvFns ==
    LET square == [op |-> "square", nparams |-> 1]
        product == [op |-> "product", nparams |-> 2]
    IN  {[list |-> FALSE, fs |-> <<square>>],
         [list |-> FALSE, fs |-> <<product>>],
         [list |-> TRUE, fs |-> <<square, square>>],
         [list |-> TRUE, fs |-> <<product, product>>],
         [list |-> TRUE, fs |-> <<square, product>>]}

\* x = np.asarray(x) for the inputs 1, 2, [2], [1, 2], [2, 2], [1, 2, 2], [[2]],
\* [[1, 2]], [[1, 2, 2]] and [[1, 2], [2, 1]]
DrvInputs ==
    {[scalar |-> FALSE, shape |-> <<>>, data |-> <<Q(1)>>],
     [scalar |-> FALSE, shape |-> <<>>, data |-> <<Q(2)>>],
     [scalar |-> FALSE, shape |-> <<1>>, data |-> <<Q(2)>>],
     [scalar |-> FALSE, shape |-> <<2>>, data |-> <<Q(1), Q(2)>>],
     [scalar |-> FALSE, shape |-> <<2>>, data |-> <<Q(2), Q(2)>>],
     [scalar |-> FALSE, shape |-> <<3>>, data |-> <<Q(1), Q(2), Q(2)>>],
     [scalar |-> FALSE, shape |-> <<1, 1>>, data |-> <<Q(2)>>],
     [scalar |-> FALSE, shape |-> <<1, 2>>, data |-> <<Q(1), Q(2)>>],
     [scalar |-> FALSE, shape |-> <<1, 3>>, data |-> <<Q(1), Q(2), Q(2)>>],
     [scalar |-> FALSE, shape |-> <<2, 2>>, data |-> <<Q(1), Q(2), Q(2), Q(1)>>]}

\* every failed check reports the same message
Check1fOneMessage(x, nparams) ==
    IF \/ nparams = 1 /\ Len(x.data) # 1 /\ Len(x.shape) > 1
       \/ nparams # 1 /\ (Len(x.data) = 1 \/ x.shape[Len(x.shape)] # nparams)
    THEN "input dimension size mismatch"
    ELSE ""

\* the message of the TypeError _forwardpass1f raises for the input x and a
\* function of nparams parameters, "" when it raises none
Check1f(x, nparams) ==
    IF nparams = 1
    THEN IF Len(x.data) = 1 THEN ""
         ELSE IF Len(x.shape) > 1 THEN "input dimension size not supported"
         ELSE ""
    ELSE IF Len(x.data) = 1 THEN "input has insufficient parameters"
         ELSE IF Len(x.shape) = 1
         THEN IF x.shape[1] # nparams THEN "input dimension size mismatch"
              ELSE ""
         ELSE IF x.shape[2] # nparams THEN "input dimension size mismatch"
              ELSE ""

\* every point of a batch is the first one
PointsAllFirst(x, nparams) ==
    IF nparams = 1
    THEN [k \in 1..Len(x.data) |-> <<x.data[1]>>]
    ELSE [k \in 1..(Len(x.data) \div nparams) |-> SubSeq(x.data, 1, nparams)]

\* the points _forwardpass1f evaluates, each the values its roots are built
\* from: x itself (x.size == 1), every xi in x, x as one vector point, or
\* every row x[im, :]
PointsOf(x, nparams) ==
    IF nparams = 1
    THEN [k \in 1..Len(x.data) |-> <<x.data[k]>>]
    ELSE [k \in 1..(Len(x.data) \div nparams) |->
              SubSeq(x.data, (k - 1) * nparams + 1, k * nparams)]

\* np.transpose(arr, (1, 0)) and np.transpose(arr, (1, 0, 2))
Transposed(arr) ==
    LET a == arr.shape[1]
        b == arr.shape[2]
        c == IF Len(arr.shape) = 3 THEN arr.shape[3] ELSE 1
    IN  [scalar |-> FALSE,
         shape |-> <<b, a>> \o SubSeq(arr.shape, 3, Len(arr.shape)),
         data |-> [n \in 1..(a * b * c) |->
                       LET j == (n - 1) \div (a * c)
                           i == ((n - 1) % (a * c)) \div c
                           k == (n - 1) % c
                       IN  arr.data[(i * b + j) * c + k + 1]]]

\* a forwardpass that begins without resetting _value and _der
ForwardpassKeeps(fn, x) ==
    LET base == [NoDrv EXCEPT !.list = fn.list, !.fs = fn.fs, !.x = x,
                              !.value = drv.value, !.der = drv.der,
                              !.calls = drv.calls + 1,
                              !.succeeded = drv.succeeded \/ drv.pc = "done"]
    IN  /\ drv.pc \in {"idle", "done", "raised"}
        /\ drv.calls < MaxCalls
        /\ drv.pc = "idle" \/ (fn.list = drv.list /\ fn.fs = drv.fs)
        /\ drv' = IF fn.list /\ \E k \in 1..Len(fn.fs) :
                                     fn.fs[k].nparams # fn.fs[1].nparams
                  THEN [base EXCEPT !.pc = "raised",
                                    !.exc = "all input functions must contain the same parameters"]
                  ELSE [base EXCEPT !.pc = "enter", !.f = 1]
        /\ nodes' = <<>>
        /\ inputs' = {}
        /\ evals' = <<>>
        /\ summed' = <<>>
        /\ recycled' = {}
        /\ ret' = NoCall

\* forwardpass(x) on the RAutoDiff object of fn, up to the first call of
\* _forwardpass1f: _roots, _value and _der are set to None (the graph of an
\* earlier forwardpass is no longer referenced), the parameter counts of a
\* list of functions are compared, and for a list _value and _der become []
Forwardpass(fn, x) ==
    LET base == [NoDrv EXCEPT !.list = fn.list, !.fs = fn.fs, !.x = x,
                              !.calls = drv.calls + 1,
                              !.succeeded = drv.succeeded \/ drv.pc = "done"]
        empty == [scalar |-> FALSE, shape |-> <<0>>, data |-> <<>>]
    IN  /\ drv.pc \in {"idle", "done", "raised"}
        /\ drv.calls < MaxCalls
        /\ drv.pc = "idle" \/ (fn.list = drv.list /\ fn.fs = drv.fs)
        /\ drv' = IF fn.list /\ \E k \in 1..Len(fn.fs) :
                                     fn.fs[k].nparams # fn.fs[1].nparams
                  THEN [base EXCEPT !.pc = "raised",
                                    !.exc = "all input functions must contain the same parameters"]
                  ELSE IF fn.list
                  THEN [base EXCEPT !.pc = "enter", !.f = 1,
                                    !.value = empty, !.der = empty]
                  ELSE [base EXCEPT !.pc = "enter", !.f = 1]
        /\ nodes' = <<>>
        /\ inputs' = {}
        /\ evals' = <<>>
        /\ summed' = <<>>
        /\ recycled' = {}
        /\ ret' = NoCall

\* _forwardpass1f(x, fn[f]), one statement at a time: the checks on entry
\* (the graph of the previous function is no longer referenced), the roots
\* Rnode(xi) of the next point, the call fi(*roots), f.grad_value = 1.0 with
\* the value stored, root.grad() for every root with the derivative stored,
\* and the return
Forwardpass1f ==
    LET fi == drv.fs[drv.f]
        pts == PointsOf(drv.x, fi.nparams)
        top == Len(nodes)
    IN  \/ /\ drv.pc = "enter"
           /\ drv' = IF Check1f(drv.x, fi.nparams) # ""
                     THEN [drv EXCEPT !.pc = "raised",
                                      !.exc = Check1f(drv.x, fi.nparams)]
                     ELSE [drv EXCEPT !.pc = "root", !.i = 1, !.g = 0,
                                      !.roots = <<>>, !.tmpval = <<>>,
                                      !.tmpder = <<>>]
           /\ nodes' = <<>>
           /\ inputs' = {}
           /\ evals' = <<>>
           /\ summed' = <<>>
           /\ recycled' = {}
           /\ ret' = NoCall
        \/ /\ drv.pc = "root"
           /\ NewRnode(pts[drv.i][Len(drv.roots) + 1])
           /\ drv' = [drv EXCEPT !.roots = Append(@, top + 1),
                                 !.pc = IF Len(drv.roots) + 1 = fi.nparams
                                        THEN "call" ELSE "root"]
        \/ /\ drv.pc = "call"
           /\ Mul(drv.roots[1], drv.roots[fi.nparams])
           /\ drv' = [drv EXCEPT !.pc = "seed"]
        \/ /\ drv.pc = "seed"
           /\ Seed(top)
           /\ drv' = [drv EXCEPT !.pc = "grad", !.g = 0,
                                 !.tmpval = Append(@, Val(top))]
        \/ /\ drv.pc = "grad"
           /\ Grad(drv.roots[drv.g + 1])
           /\ drv' = [drv EXCEPT
                  !.tmpder = Append(@, ret'.v),
                  !.g = @ + 1,
                  !.roots = IF drv.g + 1 = fi.nparams THEN <<>> ELSE @,
                  !.i = IF drv.g + 1 = fi.nparams THEN @ + 1 ELSE @,
                  !.pc = IF drv.g + 1 < fi.nparams THEN "grad"
                         ELSE IF drv.i < Len(pts) THEN "root"
                         ELSE "return"]
        \/ /\ drv.pc = "return"
           /\ drv' = [drv EXCEPT !.vals = @ \o drv.tmpval,
                                 !.ders = @ \o drv.tmpder,
                                 !.f = IF drv.f < Len(drv.fs) THEN @ + 1 ELSE @,
                                 !.pc = IF drv.f < Len(drv.fs) THEN "enter"
                                        ELSE "end"]
           /\ UNCHANGED rvars

\* the rest of forwardpass: np.asarray of the collected values and
\* derivatives, the transpositions, and np.asscalar of an array of one
\* element. numpy is not pinned: where np.asscalar is no longer there the
\* AttributeError is passed over and both arrays stay as they are.
ForwardpassEnd ==
    LET x == drv.x
        n == drv.fs[1].nparams
        valshape == IF n = 1 THEN x.shape
                    ELSE IF Len(x.shape) = 1 THEN <<>> ELSE <<x.shape[1]>>
        dershape == IF n = 1 THEN valshape
                    ELSE IF Len(x.shape) = 1 THEN <<n>> ELSE <<x.shape[1], n>>
        lead == IF drv.list THEN <<Len(drv.fs)>> ELSE <<>>
        v0 == [scalar |-> FALSE, shape |-> lead \o valshape, data |-> drv.vals]
        d0 == [scalar |-> FALSE, shape |-> lead \o dershape, data |-> drv.ders]
        turn == Len(v0.shape) = 2 /\ Len(d0.shape) \in {2, 3}
        v1 == IF turn THEN Transposed(v0) ELSE v0
        d1 == IF turn THEN Transposed(d0) ELSE d0
        Scalar(arr) == IF Len(arr.data) = 1
                       THEN [scalar |-> TRUE, shape |-> <<>>, data |-> arr.data]
                       ELSE arr
    IN  /\ drv.pc = "end"
        /\ \E asscalar \in BOOLEAN :
               drv' = [drv EXCEPT !.pc = "done",
                                  !.value = IF asscalar THEN Scalar(v1) ELSE v1,
                                  !.der = IF asscalar THEN Scalar(d1) ELSE d1]
        /\ UNCHANGED rvars

(***************************************************************************)
(* driver.py: AutoDiff(function).values(val), function of one parameter    *)
(***************************************************************************)
VARIABLE adiff  \* the AutoDiff object: self.vals; the last call and its result

\* the arguments of values(): the numbers 2 and 3, the lists [], [3], [1, 2]
\* and [1.5, 2]
ADInputs ==
    {[k |-> "num", x |-> <<PyInt(2)>>],
     [k |-> "num", x |-> <<PyInt(3)>>],
     [k |-> "list", x |-> <<>>],
     [k |-> "list", x |-> <<PyInt(3)>>],
     [k |-> "list", x |-> <<PyInt(1), PyInt(2)>>],
     [k |-> "list", x |-> <<PyFloat(<<3, 2>>), PyInt(2)>>]}

\* AutoDiff(lambda x: x * x).values(val), dimensions == 1 and length == 1:
\* a list is iterated, each self.function(Dual(v, 1))._val appended to
\* self.vals, and self.vals itself is returned; a number is not iterable, so
\* the except branch appends self.function(Dual(val, 1))._val and the method
\* ends without a return statement
ADValues(val) ==
    LET function(a) == Dual(PMul(a.val, a.val),
                            DerAdd(DerTimesNum(a.der, a.val),
                                   DerTimesNum(a.der, a.val)))
        new == [i \in 1..Len(val.x) |->
                    function(Dual(val.x[i], Num(One))).val]
    IN  /\ Len(adiff.vals) + Len(val.x) <= MaxVals
        /\ adiff' = [vals |-> adiff.vals \o new,
                     arg |-> val,
                     ret |-> IF val.k = "list"
                             THEN [k |-> "list", x |-> adiff.vals \o new]
                             ELSE [k |-> "None", x |-> <<>>]]

(***************************************************************************)
(* rnode.py: the comparison of two Rnode objects                           *)
(***************************************************************************)
VARIABLE cmp  \* the last comparison a == b or a != b and the bool it returned

\* Rnode.__eq__ with an Rnode operand:
\*   return (self.value == x.value and self.grad_value == x.grad_value)
Eq(a, b) ==
    /\ cmp' = [op |-> "eq", a |-> a, b |-> b,
               r |-> (nodes[a].value = nodes[b].value
                      /\ nodes[a].grad_value = nodes[b].grad_value)]
    /\ UNCHANGED rvars

\* Rnode.__ne__ with an Rnode operand:
\*   return (self.value != x.value or self.grad_value != x.grad_value)
Ne(a, b) ==
    /\ cmp' = [op |-> "ne", a |-> a, b |-> b,
               r |-> (nodes[a].value # nodes[b].value
                      \/ nodes[a].grad_value # nodes[b].grad_value)]
    /\ UNCHANGED rvars

(***************************************************************************)
(* The specifications                                                      *)
(***************************************************************************)
vars == <<nodes, inputs, evals, summed, recycled, ret, duals, out, sgd, relem,
          drv, adiff, cmp>>

\* no call on a Dual, the optimiser, an elementary function or the driver
ForwardIdle == UNCHANGED <<duals, out, sgd, relem, drv, adiff, cmp>>
\* no call on an Rnode
ReverseIdle == UNCHANGED <<nodes, inputs, evals, summed, recycled, ret, relem,
                           drv, adiff, cmp>>

\* AutoDiff.__init__: self.vals = []
NoAD == [vals |-> <<>>, arg |-> [k |-> "", x |-> <<>>],
         ret |-> [k |-> "", x |-> <<>>]]

NoCmp == [op |-> "", a |-> 0, b |-> 0, r |-> FALSE]

Init ==
    /\ RInit /\ relem = NoElem /\ FInit /\ drv = NoDrv /\ adiff = NoAD
    /\ cmp = NoCmp

\* The evaluation of a function of one input node, its backward pass and the
\* reuse of the input
Next ==
    \/ \E v \in InputVals : nodes = <<>> /\ NewRnode(v) /\ ForwardIdle
    \/ \E a, b \in NodeIds : Add(a, b) /\ ForwardIdle
    \/ \E a, b \in NodeIds : Mul(a, b) /\ ForwardIdle
    \/ \E a \in NodeIds, p \in Exps : PowConst(a, p) /\ ForwardIdle
    \/ \E n \in NodeIds : Seed(n) /\ ForwardIdle
    \/ \E n \in NodeIds : Clear(n) /\ ForwardIdle
    \/ \E n \in inputs : Grad(n) /\ ForwardIdle

Spec == Init /\ [][Next]_vars

OpsRoom == Len(nodes) < MaxOpNodes

\* The operators of Rnode, each in both operand orders, on the graph of one
\* input node, and a backward pass over it
NextOps ==
    \/ \E v \in InputVals : nodes = <<>> /\ NewRnode(v) /\ ForwardIdle
    \/ \E a, b \in NodeIds : OpsRoom /\ Add(a, b) /\ ForwardIdle
    \/ \E a \in NodeIds, c \in Consts : OpsRoom /\ AddConst(a, c) /\ ForwardIdle
    \/ \E a, b \in NodeIds : OpsRoom /\ Sub(a, b) /\ ForwardIdle
    \/ \E a \in NodeIds, c \in Consts : OpsRoom /\ SubConst(a, c) /\ ForwardIdle
    \/ \E a \in NodeIds, c \in Consts : OpsRoom /\ RSub(c, a) /\ ForwardIdle
    \/ \E a, b \in NodeIds : OpsRoom /\ Mul(a, b) /\ ForwardIdle
    \/ \E a \in NodeIds, c \in Consts : OpsRoom /\ MulConst(a, c) /\ ForwardIdle
    \/ \E a \in NodeIds, p \in Exps : OpsRoom /\ PowConst(a, p) /\ ForwardIdle
    \/ \E a, b \in NodeIds : OpsRoom /\ Pow(a, b) /\ ForwardIdle
    \/ \E a \in NodeIds, c \in Consts : OpsRoom /\ RPow(c, a) /\ ForwardIdle
    \/ \E a, b \in NodeIds : OpsRoom /\ Truediv(a, b) /\ ForwardIdle
    \/ \E a \in NodeIds, c \in Consts : OpsRoom /\ TruedivConst(a, c) /\ ForwardIdle
    \/ \E a \in NodeIds, c \in Consts : OpsRoom /\ RTruediv(c, a) /\ ForwardIdle
    \/ \E n \in NodeIds : Seed(n) /\ ForwardIdle
    \/ \E n \in inputs : Grad(n) /\ ForwardIdle

SpecOps == Init /\ [][NextOps]_vars

InitDual ==
    /\ RInit
    /\ relem = NoElem
    /\ duals \in DualInputs
    /\ out = NoOut
    /\ sgd = NoSGD
    /\ drv = NoDrv
    /\ adiff = NoAD
    /\ cmp = NoCmp

\* The operators of Dual, the elementary functions on a Dual and the
\* optimiser, on the Duals of one evaluation
NextDual ==
    \/ \E a, b \in DualIds : DAdd(a, b) /\ ReverseIdle
    \/ \E a \in DualIds, c \in DualConsts : DAddNum(a, c) /\ ReverseIdle
    \/ \E a \in DualIds, c \in DualConsts : DRAddNum(c, a) /\ ReverseIdle
    \/ \E a, b \in DualIds : DSub(a, b) /\ ReverseIdle
    \/ \E a \in DualIds, c \in DualConsts : DSubNum(a, c) /\ ReverseIdle
    \/ \E a \in DualIds, c \in DualConsts : DRSubNum(c, a) /\ ReverseIdle
    \/ \E a, b \in DualIds : DMul(a, b) /\ ReverseIdle
    \/ \E a \in DualIds, c \in DualConsts : DMulNum(a, c) /\ ReverseIdle
    \/ \E a \in DualIds, c \in DualConsts : DRMulNum(c, a) /\ ReverseIdle
    \/ \E a, b \in DualIds : DTruediv(a, b) /\ ReverseIdle
    \/ \E a \in DualIds, c \in DualConsts : DTruedivNum(a, c) /\ ReverseIdle
    \/ \E a \in DualIds, c \in DualConsts : DRTruedivNum(c, a) /\ ReverseIdle
    \/ \E a \in DualIds, p \in Exps : DPowNum(a, p) /\ ReverseIdle
    \/ \E a \in DualIds : DNeg(a) /\ ReverseIdle
    \/ \E a \in DualIds : DPos(a) /\ ReverseIdle
    \/ \E f \in ElemFns, a \in DualIds, p \in Exps : ElemDual(f, a, p) /\ ReverseIdle
    \/ \E ps \in ParamLists, lr \in Lrs, decay \in Decays :
            SGDNew(ps, lr, decay) /\ ReverseIdle
    \/ SGDStep /\ ReverseIdle

SpecDual == InitDual /\ [][NextDual]_vars

\* the points an elementary function is evaluated at
ElemPoints == {Q(-1), Q(0), Half, Q(1), Q(2), Q(6), Q(7)}

\* One elementary function in both modes: f(Dual(v, 1)), and z = f(Rnode(v)),
\* z.grad_value = 1.0, x.grad(); and f of a plain number
NextElem ==
    \/ \E v \in ElemPoints : nodes = <<>> /\ NewRnode(v) /\ ForwardIdle
    \/ \E v \in ElemPoints : duals = <<>> /\ NewDual(v) /\ ReverseIdle
    \/ \E f \in ElemFns, p \in Exps :
            /\ Len(nodes) = 1 /\ relem = NoElem
            /\ ElemRnode(f, 1, p)
            /\ UNCHANGED <<duals, out, sgd, drv, adiff, cmp>>
    \/ \E f \in ElemFns, p \in Exps :
            /\ Len(duals) = 1 /\ out = NoOut
            /\ ElemDual(f, 1, p)
            /\ ReverseIdle
    \/ \E f \in ElemFns, c \in ElemNums, p \in Exps :
            /\ nodes = <<>> /\ duals = <<>> /\ out = NoOut
            /\ ElemNum(f, c, p)
            /\ ReverseIdle
    \/ Len(nodes) = 2 /\ Seed(2) /\ ForwardIdle
    \/ Len(nodes) = 2 /\ nodes[2].grad_value = One /\ Grad(1) /\ ForwardIdle

SpecElem == Init /\ [][NextElem]_vars

\* One operator on operands of two categories: a Dual and an Rnode, or a Dual
\* and a str
NextMixed ==
    \/ \E v \in ElemPoints : nodes = <<>> /\ NewRnode(v) /\ ForwardIdle
    \/ \E v \in ElemPoints : duals = <<>> /\ NewDual(v) /\ ReverseIdle
    \/ Len(nodes) = 1 /\ Len(duals) = 1 /\ out = NoOut /\ DualAddRnode(1, 1)
          /\ UNCHANGED <<drv, adiff, cmp>>
    \/ Len(nodes) = 1 /\ Len(duals) = 1 /\ out = NoOut /\ RnodeMulDual(1, 1)
          /\ UNCHANGED <<drv, adiff, cmp>>
    \/ Len(duals) = 1 /\ out = NoOut /\ DualAddStr(1) /\ ReverseIdle

SpecMixed == Init /\ [][NextMixed]_vars

\* The forwardpass calls on one RAutoDiff object
NextDriver ==
    \/ \E fn \in DrvFns, x \in DrvInputs :
           Forwardpass(fn, x) /\ UNCHANGED <<duals, out, sgd, relem, adiff, cmp>>
    \/ Forwardpass1f /\ UNCHANGED <<duals, out, sgd, relem, adiff, cmp>>
    \/ ForwardpassEnd /\ UNCHANGED <<duals, out, sgd, relem, adiff, cmp>>

SpecDriver == Init /\ [][NextDriver]_vars

\* The calls of values() on one AutoDiff object
NextAD ==
    \E val \in ADInputs :
        ADValues(val) /\ UNCHANGED <<rvars, duals, out, sgd, relem, drv, cmp>>

SpecAD == Init /\ [][NextAD]_vars

\* The operators of Rnode, the elementary functions on an Rnode, clear() and
\* grad() on the nodes of one input; the operators take operands whose values
\* are numbers
NextGraph ==
    \/ (\A n \in NodeIds : IsRat(Val(n))) /\ NextOps
    \/ \E n \in NodeIds : Clear(n) /\ ForwardIdle
    \/ \E f \in ElemFns, a \in NodeIds, p \in Exps :
            /\ OpsRoom /\ IsRat(Val(a))
            /\ ElemRnode(f, a, p)
            /\ UNCHANGED <<duals, out, sgd, drv, adiff, cmp>>

SpecGraph == Init /\ [][NextGraph]_vars

\* Two input nodes and a product of them, grad() and clear() on an input,
\* and the comparisons of the nodes
NextCompare ==
    \/ \E v \in InputVals \cup {Q(4)} :
            Len(nodes) < 2 /\ NewRnode(v) /\ ForwardIdle
    \/ \E a, b \in NodeIds : OpsRoom /\ Mul(a, b) /\ ForwardIdle
    \/ \E n \in NodeIds : Seed(n) /\ ForwardIdle
    \/ \E n \in inputs : Grad(n) /\ ForwardIdle
    \/ \E n \in NodeIds : Clear(n) /\ ForwardIdle
    \/ \E a, b \in NodeIds :
            Eq(a, b) /\ UNCHANGED <<duals, out, sgd, relem, drv, adiff>>
    \/ \E a, b \in NodeIds :
            Ne(a, b) /\ UNCHANGED <<duals, out, sgd, relem, drv, adiff>>

SpecCompare == Init /\ [][NextCompare]_vars

(***************************************************************************)
(* Reverse mode: what the claims speak of                                  *)
(***************************************************************************)
\* the sum over the edges ch[i..] of weight * (cached gradient of the child)
RECURSIVE EdgeSumFrom(_, _, _)
EdgeSumFrom(ns, ch, i) ==
    IF i > Len(ch) THEN Zero
    ELSE QAdd(QMul(ch[i][1], ns[ch[i][2]].grad_value), EdgeSumFrom(ns, ch, i + 1))

EdgeSum(ns, n) == EdgeSumFrom(ns, ns[n].children, 1)

\* a seeded output: no operator has consumed it and its grad_value is 1.0
Seeded(n) == nodes[n].children = <<>> /\ nodes[n].grad_value = One

\* the sum, over every path of edges from n to a seeded output, of the
\* product of the weights along the path
RECURSIVE PathSum(_), PathSumFrom(_, _)
PathSum(n) == IF Seeded(n) THEN One ELSE PathSumFrom(nodes[n].children, 1)
PathSumFrom(ch, i) ==
    IF i > Len(ch) THEN Zero
    ELSE QAdd(QMul(ch[i][1], PathSum(ch[i][2])), PathSumFrom(ch, i + 1))

\* nothing is cached but the seeds of the outputs
FreshPass == \A i \in NodeIds : nodes[i].grad_value # None => Seeded(i)

\* the graph of p = x * x; z = p + x
XTimesXPlusX(x, p, z) ==
    /\ nodes[x].children = <<<<Val(x), p>>, <<Val(x), p>>, <<One, z>>>>
    /\ Val(p) = QMul(Val(x), Val(x))
    /\ nodes[p].children = <<<<One, z>>>>
    /\ Val(z) = QAdd(Val(p), Val(x))
    /\ nodes[z].children = <<>>

\* 2 * x.value + 1
TwoXPlusOne(x) == QAdd(QMul(Q(2), Val(x)), One)

\* C1: a grad() that finds no cached value returns the sum over the node's
\* edges of weight * child.grad(); when only the outputs' seeds are cached,
\* that is the sum over the paths to the seeded outputs of the products of
\* the weights; for z = x*x + x with z seeded it is 2 * x.value + 1.
C1_GradIsSumOverPaths ==
    [][\A n \in NodeIds :
        (Grad(n) /\ nodes[n].grad_value = None) =>
            /\ ret' = [n |-> n, v |-> EdgeSum(nodes', n)]
            /\ FreshPass => ret'.v = PathSum(n)
            /\ \A p, z \in NodeIds :
                (XTimesXPlusX(n, p, z) /\ FreshPass /\ Seeded(z))
                    => ret'.v = TwoXPlusOne(n)]_vars

\* C1 witness: z = x*x + x was built, z seeded, and x.grad() has summed the
\* three edges of the shared input to 2 * x.value + 1
C1_Witness ==
    \E x \in inputs, p, z \in NodeIds :
        /\ XTimesXPlusX(x, p, z)
        /\ Seeded(z)
        /\ evals[x] = 1 /\ evals[p] = 1
        /\ nodes[p].grad_value = One
        /\ ret = [n |-> x, v |-> TwoXPlusOne(x)]

\* the graph of t = x ** 2; y1 = t + x
SquarePlusX(x, t, y1) ==
    /\ nodes[x].children = <<<<QMul(Q(2), Val(x)), t>>, <<One, y1>>>>
    /\ Val(t) = QMul(Val(x), Val(x))
    /\ nodes[t].children = <<<<One, y1>>>>
    /\ Val(y1) = QAdd(Val(t), Val(x))
    /\ nodes[y1].children = <<>>

\* no children list holds an edge to node y
Unreferenced(y) ==
    \A i \in NodeIds : \A k \in 1..Len(nodes[i].children) :
        nodes[i].children[k][2] # y

\* C2: clear() leaves the node without edges and without a cached gradient,
\* so when a cleared input x is reused for y1 = x**2 + x and y1 is seeded,
\* x.grad() returns 2 * x.value + 1, the derivative of the second function.
C2_ClearThenReuse ==
    [][/\ \A x \in NodeIds : Clear(x) =>
            /\ nodes'[x].children = <<>>
            /\ nodes'[x].grad_value = None
            /\ nodes'[x].value = nodes[x].value
       /\ \A x, t, y1 \in NodeIds :
            (Grad(x) /\ x \in recycled /\ SquarePlusX(x, t, y1)
                /\ Seeded(y1) /\ nodes[t].grad_value = None
                /\ nodes[x].grad_value = None)
                => ret'.v = TwoXPlusOne(x)]_vars

\* C2 witness: the output y = x**2 of a first pass is still seeded but no
\* longer referenced, x.clear() discarded the gradient of that pass, and
\* x.grad() on y1 = x**2 + x has returned 2 * x.value + 1
C2_Witness ==
    \E x \in recycled, t, y1, y \in NodeIds :
        /\ SquarePlusX(x, t, y1)
        /\ Seeded(y1)
        /\ y \notin {x, t, y1}
        /\ Val(y) = QMul(Val(x), Val(x)) /\ Seeded(y) /\ Unreferenced(y)
        /\ evals[x] = 1
        /\ ret = [n |-> x, v |-> TwoXPlusOne(x)]

\* node x holds the non-zero gradient a backward pass summed over its edges, and
\* edges recorded since that pass
Reused(x) ==
    /\ summed[x] > 0
    /\ Len(nodes[x].children) > summed[x]
    /\ nodes[x].grad_value # Zero

\* the sum over all the edges of x, those of the earlier graph and the new
\* ones: what grad() would compute if x held no cached gradient
Accumulated(x) ==
    GradRec([g |-> [GradValues EXCEPT ![x] = None], ev |-> evals, sm |-> summed],
            x).g[x]

\* C3 as claimed: grad() on an input reused without clear() returns the sum
\* over the old and the new edges.
C3_Original ==
    [][\A x \in inputs : (Grad(x) /\ Reused(x))
        => ret'.v = Accumulated(x)]_vars

\* C3 amended: grad() on a node that holds a cached gradient raises nothing
\* and returns that gradient: the edges recorded since stay in children, old
\* and new, and none of them is summed or visited.
C3_ReuseReturnsCached ==
    [][\A x \in NodeIds : (Grad(x) /\ nodes[x].grad_value # None)
        => /\ ret' = [n |-> x, v |-> nodes[x].grad_value]
           /\ nodes'[x].children = nodes[x].children
           /\ \A i \in NodeIds : nodes'[i].grad_value = nodes[i].grad_value]_vars

\* C3 witness: x was the input of a pass (y = x**2 seeded, gradient summed),
\* then of t = x**2; y1 = t + x without clear(): y1 is seeded, the cached
\* gradient of x is still that of the first pass, and t was never visited
C3_Witness ==
    \E x \in inputs, y, t, y1 \in NodeIds :
        /\ nodes[x].children =
              <<<<QMul(Q(2), Val(x)), y>>, <<QMul(Q(2), Val(x)), t>>, <<One, y1>>>>
        /\ Seeded(y) /\ Seeded(y1)
        /\ nodes[t].children = <<<<One, y1>>>>
        /\ nodes[t].grad_value = None
        /\ evals[x] = 1 /\ summed[x] = 1
        /\ ret = [n |-> x, v |-> QMul(Q(2), Val(x))]
        /\ Accumulated(x) # ret.v

\* C5: between two clear() calls the sum over a node's children is evaluated
\* at most once, and a grad() on a node that holds a cached gradient returns
\* it without evaluating any sum, its own or a child's.
C5_Memoized ==
    [][/\ \A n \in NodeIds : evals'[n] <= 1
       /\ \A n \in NodeIds : (Grad(n) /\ nodes[n].grad_value # None)
            => (evals' = evals /\ summed' = summed /\ nodes' = nodes
                /\ ret'.v = nodes[n].grad_value)]_vars

\* C5 witness: a node with children is reached over two edges of the same
\* parent, both were summed by grad(), each once
C5_Witness ==
    \E x, p \in NodeIds :
        /\ Len(nodes[x].children) >= 2
        /\ nodes[x].children[1][2] = p /\ nodes[x].children[2][2] = p
        /\ nodes[p].children # <<>>
        /\ evals[x] = 1 /\ evals[p] = 1
        /\ ret = [n |-> x, v |-> nodes[x].grad_value]

\* C10: c - x for a plain number c and a node x creates a node of value
\* c - x.value and records the local partial -1 on x; the node and the
\* edge are not those of x - c.
C10_RSubRecordsMinusOne ==
    [][\A c \in Consts, x \in NodeIds : RSub(c, x) =>
        LET z == Len(nodes) + 1
        IN  /\ nodes'[z].value = QSub(c, Val(x))
            /\ nodes'[x].children = Append(nodes[x].children, <<QNeg(One), z>>)
            /\ ~SubConst(x, c)]_vars

(***************************************************************************)
(* Forward mode and the elementary functions: what the claims speak of     *)
(***************************************************************************)
\* the last call was the elementary function f in both modes at one point:
\* f(Dual(v, 1)) has ended, and so has z = f(Rnode(v)), either by raising or
\* by z.grad_value = 1.0 and x.grad()
BothModesRan(f) ==
    /\ out.op = f
    /\ out.a = 1
    /\ relem.f = f
    /\ duals[1] = Dual(Literal(nodes[1].value), Num(One))
    /\ relem.exc = "" => (ret.n = 1 /\ nodes[2].grad_value = One)

\* the point v is in the domain of the function f, and f has a derivative
\* there
InDomain(f, v) ==
    CASE f \in {"log", "log10", "log2", "sqrt"} -> QLt(Zero, v)
      [] f \in {"arcsin", "arccos"} -> QLt(Q(-1), v) /\ QLt(v, One)
      [] OTHER -> TRUE

\* C4: for every elementary function f and every point x of its domain,
\* f(Dual(x, 1)).der equals x.grad() after z = f(Rnode(x)), z.grad_value = 1.
C4_ModeEquivalence ==
    \A f \in ElemFns :
        (BothModesRan(f) /\ InDomain(f, nodes[1].value)) =>
            /\ out.kind = "Dual"
            /\ relem.exc = ""
            /\ out.dual.der = Num(ret.v)

\* the last call was a binary operator on Duals whose derivatives are vectors
VectorCall ==
    /\ out.op \in {"add", "radd", "sub", "rsub", "mul", "rmul", "truediv", "rtruediv"}
    /\ duals[out.a].der.k \in {"list", "ndarray"}
    /\ out.b # 0 => duals[out.b].der.k \in {"list", "ndarray"}
    /\ out.b # 0 => Len(duals[out.b].der.x) = Len(duals[out.a].der.x)
    /\ out.op = "truediv" =>
          IF out.b # 0 THEN ~IsZero(duals[out.b].val) ELSE ~IsZero(out.c)
    /\ out.op = "rtruediv" => ~IsZero(duals[out.a].val)

\* the i-th partial of the result of the last call, by the rule of its operator
Partial(i) ==
    LET v == duals[out.a].val.q
        d == duals[out.a].der.x[i]
    IN  IF out.b # 0
        THEN LET w == duals[out.b].val.q
                 e == duals[out.b].der.x[i]
             IN  CASE out.op = "add" -> QAdd(d, e)
                   [] out.op = "sub" -> QSub(d, e)
                   [] out.op = "mul" -> QAdd(QMul(d, w), QMul(v, e))
                   [] out.op = "truediv" ->
                        QDiv(QSub(QMul(d, w), QMul(v, e)), QMul(w, w))
        ELSE CASE out.op \in {"add", "radd", "sub"} -> d
               [] out.op = "rsub" -> QNeg(d)
               [] out.op \in {"mul", "rmul"} -> QMul(d, out.c.q)
               [] out.op = "truediv" -> QDiv(d, out.c.q)
               [] out.op = "rtruediv" ->
                    QNeg(QDiv(QMul(out.c.q, d), QMul(v, v)))

\* C6: when the Dual operands carry a derivative vector of length n, the
\* result of +, -, *, / between two Duals or a Dual and a plain constant has a
\* derivative of length n, whose entries are the rule of the operator applied
\* to the entries of the operands.
C6_DerivativeShape ==
    VectorCall =>
        /\ out.kind = "Dual"
        /\ Len(out.dual.der.x) = Len(duals[out.a].der.x)
        /\ \A i \in 1..Len(duals[out.a].der.x) : out.dual.der.x[i] = Partial(i)

\* the names of the calls that return a Dual or raise
DualCalls ==
    {"add", "radd", "sub", "rsub", "mul", "rmul", "truediv", "rtruediv", "pow",
     "neg", "pos"} \cup (ElemFns \ {"logistic"})

\* how often the Dual a occurs in the list of parameters ps[i..]
RECURSIVE Occurs(_, _, _)
Occurs(a, ps, i) ==
    IF i > Len(ps) THEN 0
    ELSE (IF ps[i] = a THEN 1 ELSE 0) + Occurs(a, ps, i + 1)

\* the Dual x after k updates: der + decay * der when decay is not zero, then
\* val - lr * der
RECURSIVE Updated(_, _)
Updated(x, k) ==
    IF k = 0 THEN x
    ELSE LET der == IF sgd.decay.q = Zero THEN x.der.x[1]
                    ELSE QAdd(x.der.x[1], QMul(sgd.decay.q, x.der.x[1]))
         IN  Updated(Dual(PyFloat(QSub(x.val.q, QMul(sgd.lr.q, der))), Num(der)), k - 1)

C8_RSubNegatesDer ==
    (out.op = "rsub" /\ duals[out.a].der.k = "num") =>
        /\ out.kind = "Dual"
        /\ out.dual.val.q = QSub(out.c.q, duals[out.a].val.q)
        /\ out.dual.der = Num(QNeg(duals[out.a].der.x[1]))

\* C9: for every Dual(v, d) with a number d and every plain number c,
\* Dual(v, d) + c and Dual(v, d) - c have derivative d.
C9_ConstLeavesDer ==
    (out.op \in {"add", "sub"} /\ out.b = 0 /\ duals[out.a].der.k = "num") =>
        /\ out.kind = "Dual"
        /\ out.dual.der = duals[out.a].der

(***************************************************************************)
(* The domain guards of the elementary functions                           *)
(***************************************************************************)
\* C11: log, log10 and log2 raise an error whenever the value of the input is
\* <= 0, for an Rnode and for a Dual (the ValueError 'Domain of logarithm
\* is {x > 0}'), and then return nothing (no node is created).
C11_LogDomainGuard ==
    \A f \in {"log", "log10", "log2"} :
        /\ (relem.f = f /\ QLe(nodes[1].value, Zero)) =>
                (relem.exc # "" /\ Len(nodes) = 1)
        /\ (out.op = f /\ out.a = 1 /\ QLe(duals[1].val.q, Zero)) =>
                (out.kind = "raise" /\ out.exc = "ValueError")

\* C12: arcsin and arccos raise an error whenever 1 - value ** 2 <= 0, for an
\* Rnode and for a Dual, and then return nothing.
C12_ArcDomainGuard ==
    \A f \in {"arcsin", "arccos"} :
        /\ (relem.f = f /\ QLe(OneMinusSquare(nodes[1].value), Zero)) =>
                (relem.exc = "ValueError" /\ Len(nodes) = 1)
        /\ (out.op = f /\ out.a = 1 /\ QLe(OneMinusSquare(duals[1].val.q), Zero)) =>
                (out.kind = "raise" /\ out.exc = "ValueError")

(***************************************************************************)
(* The category of what an elementary function returns                     *)
(***************************************************************************)
\* C13: every elementary function f returns a result of the category of its
\* argument: a plain number for a plain number (4, 4.0, 0), a new Dual of
\* derivative f'(value) * der for a Dual, a new Rnode for an Rnode (at the
\* points where f has a derivative).
C13_CategoryClosure ==
    \A f \in ElemFns :
        /\ (out.op = f /\ out.a = 0) => out.kind = "number"
        /\ (out.op = f /\ out.a = 1 /\ InDomain(f, duals[1].val.q)) =>
                /\ out.kind = "Dual"
                /\ \E p \in Exps :
                        out.dual.der =
                            Scale(RnodeBranch(f, duals[1].val.q, p).weight,
                                  duals[1].der)
        /\ (relem.f = f /\ InDomain(f, nodes[1].value)) =>
                (relem.exc = "" /\ Len(nodes) = 2)

(***************************************************************************)
(* Operands of two categories                                              *)
(***************************************************************************)
\* C14: a binary operator of a Dual or an Rnode whose other operand is neither
\* of the same category nor a plain number (Dual + Rnode, Rnode * Dual,
\* Dual + "a") raises an error and returns no Dual and no Rnode.
C14_TypeMismatchFailFast ==
    (out.op # "" /\ out.c.t \in {"Rnode", "str"}) =>
        (out.kind = "raise" /\ Len(nodes) <= 1)

(***************************************************************************)
(* A backward pass without a seed                                          *)
(***************************************************************************)
\* no node holds a seed: every gradient is unset, or the 0 of an earlier
\* grad() on the unseeded graph; and every weight is a number Python computed
\* exactly (no np.log, whose product with 0 is not 0 when it is not finite)
Unseeded ==
    /\ \A i \in NodeIds : nodes[i].grad_value \in {None, Zero}
    /\ \A i \in NodeIds : \A k \in 1..Len(nodes[i].children) :
            IsRat(nodes[i].children[k][1])

\* C15: grad() on a node of a graph whose output node was never seeded raises
\* nothing and returns 0, the empty sum of the output node carried through
\* every edge; every gradient it caches is 0.
C15_UnseededGradIsZero ==
    [][\A n \in NodeIds : (Grad(n) /\ Unseeded) =>
            /\ ret' = [n |-> n, v |-> Zero]
            /\ \A i \in NodeIds : nodes'[i].grad_value \in {None, Zero}]_vars

\* C15 witness: grad() on an input with two edges, over a graph of three
\* nodes or more without a seed, returned 0 and cached 0 in the output node
C15_Witness ==
    \E x \in inputs, z \in NodeIds :
        /\ Len(nodes) >= 3
        /\ Len(nodes[x].children) >= 2
        /\ nodes[z].children = <<>> /\ nodes[z].grad_value = Zero
        /\ evals[x] = 1 /\ evals[z] = 1
        /\ ret = [n |-> x, v |-> Zero]

(***************************************************************************)
(* Forward-pass recording                                                  *)
(***************************************************************************)
\* an operator on the node operands ops (one node, or two) has recorded: one
\* new node z without children and without gradient; on every node as many
\* new edges, all to z, as the node occurs in ops; no other change of a node;
\* no sum evaluated
Records(ops) ==
    LET z == Len(nodes) + 1
        Count(i) == Cardinality({k \in 1..Len(ops) : ops[k] = i})
    IN  /\ Len(nodes') = z
        /\ nodes'[z].children = <<>>
        /\ nodes'[z].grad_value = None
        /\ \A i \in NodeIds :
            /\ nodes'[i].value = nodes[i].value
            /\ nodes'[i].grad_value = nodes[i].grad_value
            /\ Len(nodes'[i].children) = Len(nodes[i].children) + Count(i)
            /\ SubSeq(nodes'[i].children, 1, Len(nodes[i].children))
                    = nodes[i].children
            /\ \A k \in (Len(nodes[i].children) + 1)..Len(nodes'[i].children) :
                    nodes'[i].children[k][2] = z
        /\ evals' = Append(evals, 0)
        /\ summed' = Append(summed, 0)

\* C16: every binary operator of Rnode (+, -, *, /, ** in both operand orders)
\* returns a new node with empty children and unset grad_value, appends one
\* edge to self.children and, when the other operand is a node, one edge to
\* its children (two edges on one list for x + x), changes no value and no
\* grad_value of an existing node and evaluates no gradient.
C16_ForwardPassRecords ==
    [][/\ \A a, b \in NodeIds :
            (Add(a, b) \/ Sub(a, b) \/ Mul(a, b) \/ Pow(a, b) \/ Truediv(a, b))
                => Records(<<a, b>>)
       /\ \A a \in NodeIds, c \in Consts :
            (\/ AddConst(a, c) \/ SubConst(a, c) \/ RSub(c, a) \/ MulConst(a, c)
             \/ RPow(c, a) \/ TruedivConst(a, c) \/ RTruediv(c, a))
                => Records(<<a>>)
       /\ \A a \in NodeIds, p \in Exps : PowConst(a, p) => Records(<<a>>)]_vars

\* C16 witness: an input that holds the gradient of a finished backward pass
\* was an operand twice of one operator: its last two edges lead to the new
\* node, and its gradient is the one it held
C16_Witness ==
    \E x \in inputs :
        LET ch == nodes[x].children
            z == Len(nodes)
        IN  /\ Len(ch) = 3
            /\ ch[2][2] = z /\ ch[3][2] = z /\ ch[1][2] # z
            /\ nodes[z].children = <<>> /\ nodes[z].grad_value = None
            /\ nodes[x].grad_value # None /\ evals[x] = 1

(***************************************************************************)
(* The local partials of +, - and *                                        *)
(***************************************************************************)
\* the operator has appended the weight wa to the children of a and the
\* weight wb to the children of b, in this order, both with the new node
Appended(a, wa, b, wb) ==
    LET z == Len(nodes) + 1
    IN  IF a = b
        THEN nodes'[a].children = nodes[a].children \o <<<<wa, z>>, <<wb, z>>>>
        ELSE /\ nodes'[a].children = Append(nodes[a].children, <<wa, z>>)
             /\ nodes'[b].children = Append(nodes[b].children, <<wb, z>>)

CutOff(f, v) ==
    IF ~QLt(Zero, v) THEN Zero
    ELSE IF f = "relu6" /\ QLt(Q(6), v) THEN Q(6)
    ELSE v

\* relu and relu6 were called on the input node and on the input Dual (of
\* derivative 1), and gave, in both modes, the value cut off and the
\* derivative factor 1 where the input value is > 0 and, for relu6 when the
\* upper end counts, < 6, else 0
ReluGives(upper) ==
    \A f \in {"relu", "relu6"} :
        LET Factor(v) ==
                IF QLt(Zero, v) /\ (f = "relu6" /\ upper => QLt(v, Q(6)))
                THEN One ELSE Zero
        IN  /\ (relem.f = f) =>
                    /\ relem.exc = ""
                    /\ nodes[2].value = CutOff(f, nodes[1].value)
                    /\ nodes[1].children = <<<<Factor(nodes[1].value), 2>>>>
            /\ (out.op = f /\ out.a = 1) =>
                    /\ out.kind = "Dual"
                    /\ out.dual.val.q = CutOff(f, duals[1].val.q)
                    /\ out.dual.der = Num(Factor(duals[1].val.q))

\* C18 as stated: the derivative factor of relu and of relu6 is 1 where the
\* input value is > 0, else 0; relu6 returns the value clipped to [0, 6], and
\* for an input above 6 the factor is still 1.
C18_Original == ReluGives(FALSE)

\* C18: the derivative factor of relu is 1 where the input value is > 0, else
\* 0 (0 at exactly 0); relu6 returns the value clipped to [0, 6] and its
\* factor is 1 where 0 < value < 6, else 0: 0 at 6 and above 6, for a Dual and
\* for an Rnode.
C18_ReluSubgradient == ReluGives(TRUE)

\* C18 witness: relu6 of Rnode(7) and of Dual(7, 1): the value 6 and the
\* factor 0 in both modes
C18_Witness ==
    /\ relem.f = "relu6" /\ out.op = "relu6" /\ out.a = 1
    /\ nodes[1].value = Q(7) /\ duals[1].val.q = Q(7)
    /\ nodes[2].value = Q(6) /\ nodes[1].children = <<<<Zero, 2>>>>
    /\ out.dual = Dual(PyFloat(Q(6)), Num(Zero))

(***************************************************************************)
(* The driver: what the claims speak of                                    *)
(***************************************************************************)
\* the forwardpass of the one function lambda x: x * x has returned
SquareDone == drv.pc = "done" /\ ~drv.list /\ drv.fs[1].op = "square"

\* values() and reverse() are arrays of m elements, element i the value
\* x_i * x_i and the derivative 2 * x_i of the function at point i
PointwiseResult ==
    /\ ~drv.value.scalar /\ drv.value.shape = drv.x.shape
    /\ ~drv.der.scalar /\ drv.der.shape = drv.x.shape
    /\ \A i \in 1..Len(drv.x.data) :
           /\ drv.value.data[i] = QMul(drv.x.data[i], drv.x.data[i])
           /\ drv.der.data[i] = QMul(Q(2), drv.x.data[i])

\* the graph of point i is the root 2i - 1 and the node 2i of its square: no
\* edge leaves it, and the cached gradient of its root is its own derivative
IndependentGraphs ==
    /\ Len(nodes) = 2 * Len(drv.x.data)
    /\ \A n \in NodeIds :
           \A e \in 1..Len(nodes[n].children) :
               (nodes[n].children[e][2] + 1) \div 2 = (n + 1) \div 2
    /\ \A i \in 1..Len(drv.x.data) :
           /\ nodes[2 * i - 1].value = drv.x.data[i]
           /\ nodes[2 * i - 1].grad_value = QMul(Q(2), drv.x.data[i])

\* the forwardpass on one point alone, RAutoDiff(f).forwardpass(v): the value
\* v * v and the derivative 2 * v, as a number or as an array of no dimension
AloneResult ==
    /\ drv.value.shape = <<>> /\ drv.der.shape = <<>>
    /\ drv.value.data = <<QMul(drv.x.data[1], drv.x.data[1])>>
    /\ drv.der.data = <<QMul(Q(2), drv.x.data[1])>>

\* C19 as stated: after forwardpass on a list of m >= 1 points of a function
\* of one parameter, values()[i] and reverse()[i] are the value and the
\* derivative a forwardpass on point i alone gives, and the graphs of the
\* points are independent
C19_Original ==
    /\ (SquareDone /\ drv.x.shape = <<>>) => AloneResult
    /\ (SquareDone /\ Len(drv.x.shape) = 1) =>
           (PointwiseResult /\ IndependentGraphs)

\* C19: after forwardpass on a list of m >= 2 points of a function of one
\* parameter, values()[i] and reverse()[i] are the value and the derivative
\* a forwardpass on point i alone gives, every point evaluated on its own
\* freshly built graph; a list of one point is evaluated as that point alone,
\* and where numpy still has asscalar values() and reverse() are then plain
\* numbers that cannot be indexed
C19_BatchPointwise ==
    /\ (SquareDone /\ drv.x.shape = <<>>) => AloneResult
    /\ (SquareDone /\ Len(drv.x.shape) = 1 /\ Len(drv.x.data) >= 2) =>
           (PointwiseResult /\ IndependentGraphs)
    /\ (SquareDone /\ Len(drv.x.shape) = 1 /\ Len(drv.x.data) = 1) =>
           /\ IndependentGraphs
           /\ PointwiseResult \/ (drv.value.scalar /\ drv.der.scalar /\ AloneResult)

\* forwardpass on the two points [1, 2] has returned the values [1, 4] and
\* the derivatives [2, 4]
C19_Witness ==
    /\ SquareDone
    /\ drv.x.data = <<Q(1), Q(2)>> /\ drv.x.shape = <<2>>
    /\ drv.value.data = <<Q(1), Q(4)>>
    /\ drv.der.data = <<Q(2), Q(4)>>
    /\ Len(nodes) = 4

\* the call RAutoDiff(fn).forwardpass(x) has got past the checks of its
\* first function, or has raised
Checked == drv.pc \notin {"idle", "enter"}

\* forwardpass raised TypeError(msg) and no Rnode was built, no function
\* called
RaisedEarly(msg) ==
    /\ drv.pc = "raised" /\ drv.exc = msg
    /\ nodes = <<>> /\ drv.vals = <<>> /\ drv.tmpval = <<>>

SameCounts == \A k \in 1..Len(drv.fs) : drv.fs[k].nparams = drv.fs[1].nparams

\* C20 as stated: every 2-D input for a function of one parameter, a scalar
\* for a function of several, a vector or a matrix row of another length
\* than the parameter count, and a list of functions of differing parameter
\* counts, each raise TypeError with their message before any evaluation
C20_Original ==
    Checked =>
        LET n == drv.fs[1].nparams
            dim == Len(drv.x.shape)
        IN  /\ ~SameCounts =>
                RaisedEarly("all input functions must contain the same parameters")
            /\ (SameCounts /\ n = 1 /\ dim = 2) =>
                RaisedEarly("input dimension size not supported")
            /\ (SameCounts /\ n > 1 /\ dim = 0) =>
                RaisedEarly("input has insufficient parameters")
            /\ (SameCounts /\ n > 1 /\ dim >= 1 /\ drv.x.shape[dim] # n) =>
                RaisedEarly("input dimension size mismatch")

\* C20: forwardpass raises TypeError before any evaluation: for a list of
\* functions of differing parameter counts; for a 2-D input of more than one
\* element to a function of one parameter ('not supported'); for any input
\* of exactly one element to a function of several parameters
\* ('insufficient parameters'); for a vector, or a matrix row, of more than
\* one element and another length than the parameter count ('mismatch').
\* Every other input is evaluated, a 1 x 1 matrix as a scalar.
C20_ArityMismatchRaises ==
    Checked =>
        LET n == drv.fs[1].nparams
            dim == Len(drv.x.shape)
            size == Len(drv.x.data)
            expected ==
                IF ~SameCounts
                THEN "all input functions must contain the same parameters"
                ELSE IF n = 1 /\ dim = 2 /\ size > 1
                THEN "input dimension size not supported"
                ELSE IF n > 1 /\ size = 1
                THEN "input has insufficient parameters"
                ELSE IF n > 1 /\ drv.x.shape[dim] # n
                THEN "input dimension size mismatch"
                ELSE ""
        IN  IF expected = "" THEN drv.pc # "raised" ELSE RaisedEarly(expected)

\* a vector of three elements for a function of two parameters was refused
C20_Witness ==
    /\ RaisedEarly("input dimension size mismatch")
    /\ drv.x.shape = <<3>>
    /\ drv.fs[1].nparams = 2

(***************************************************************************)
(* AutoDiff: what the claims speak of                                      *)
(***************************************************************************)
\* C21: for the function lambda x: x * x of one parameter, every call
\* values(v) returns v * v for a number v, and for a list a list with
\* exactly one entry per point, entry i being v[i] * v[i], whatever calls of
\* values() came before on the same AutoDiff object
C21_ValuesOfEveryCall ==
    /\ adiff.arg.k = "num" =>
           /\ adiff.ret.k = "num"
           /\ adiff.ret.x[1].q = QMul(adiff.arg.x[1].q, adiff.arg.x[1].q)
    /\ adiff.arg.k = "list" =>
           /\ adiff.ret.k = "list"
           /\ Len(adiff.ret.x) = Len(adiff.arg.x)
           /\ \A i \in 1..Len(adiff.arg.x) :
                  adiff.ret.x[i].q = QMul(adiff.arg.x[i].q, adiff.arg.x[i].q)

KeepsEdges(n) ==
    /\ Len(nodes'[n].children) >= Len(nodes[n].children)
    /\ SubSeq(nodes'[n].children, 1, Len(nodes[n].children)) = nodes[n].children

\* every edge leads to a node constructed after the node that holds it
EdgesLeadOn ==
    \A n \in NodeIds :
        \A e \in 1..Len(nodes[n].children) :
            /\ n < nodes[n].children[e][2]
            /\ nodes[n].children[e][2] <= Len(nodes)

\* C23: every step that appends an edge appends it to an existing node and
\* points it to the one node the step constructs; so after any sequence of
\* operator, elementary-function, clear() and grad() calls every edge leads
\* to a later node, the edge relation is acyclic, and every grad() returns
C23_EdgesAcyclic ==
    [][/\ \A n \in NodeIds :
              \/ nodes'[n].children = <<>>
              \/ /\ KeepsEdges(n)
                 /\ \A e \in (Len(nodes[n].children) + 1)..Len(nodes'[n].children) :
                        /\ Len(nodes') = Len(nodes) + 1
                        /\ nodes'[n].children[e][2] = Len(nodes')
       /\ Len(nodes') > Len(nodes) => nodes'[Len(nodes')].children = <<>>
       /\ EdgesLeadOn'
       /\ \A n \in NodeIds : Grad(n) => ret'.v # None]_vars

\* grad() on the input has returned through a chain of two edges
C23_Witness ==
    /\ Len(nodes) = 3
    /\ \E e \in 1..Len(nodes[1].children) : nodes[1].children[e][2] = 2
    /\ \E e \in 1..Len(nodes[2].children) : nodes[2].children[e][2] = 3
    /\ ret.n = 1 /\ ret.v # None /\ nodes[2].grad_value # None

\* C24: no operator and no elementary function removes, reorders or rewrites
\* an edge: the children of a node only grow at the end, and only clear()
\* on the node empties them; no step changes the value of a node; grad()
\* changes no children and only sets grad_value where it was None
C24_ChildrenAppendOnly ==
    [][\A n \in NodeIds :
          /\ KeepsEdges(n) \/ Clear(n)
          /\ nodes'[n].value = nodes[n].value
          /\ (\E m \in NodeIds : Grad(m)) =>
                 /\ nodes'[n].children = nodes[n].children
                 /\ nodes[n].grad_value # None =>
                        nodes'[n].grad_value = nodes[n].grad_value]_vars

\* grad() has cached gradients on a node holding two edges and on the node
\* they lead to
C24_Witness ==
    /\ ret.n = 1
    /\ Len(nodes[1].children) = 2
    /\ nodes[1].grad_value # None
    /\ Len(nodes) >= 2 /\ nodes[2].grad_value # None

\* C25: for two Rnode objects, a == b returns True exactly when their values
\* are equal, and a != b returns the opposite, in every state of the nodes,
\* also after grad() was called on only one of them
C25_EqualityComparesValues ==
    /\ cmp.op = "eq" => (cmp.r <=> (Val(cmp.a) = Val(cmp.b)))
    /\ cmp.op = "ne" => (cmp.r <=> (Val(cmp.a) # Val(cmp.b)))

\* values() and reverse() of an RAutoDiff object that holds no result
NoResult == [scalar |-> FALSE, shape |-> <<>>, data |-> <<>>]

\* the values and the derivatives of one function at the points of the
\* input x: v * v and 2 * v for every element v, or a * b and (b, a) for
\* every pair (a, b) of elements
ValuesAt(op, x) ==
    IF op = "square"
    THEN [k \in 1..Len(x.data) |-> QMul(x.data[k], x.data[k])]
    ELSE [k \in 1..(Len(x.data) \div 2) |->
              QMul(x.data[2 * k - 1], x.data[2 * k])]
SlopesAt(op, x) ==
    IF op = "square"
    THEN [k \in 1..Len(x.data) |-> QMul(Q(2), x.data[k])]
    ELSE [k \in 1..Len(x.data) |->
              IF k % 2 = 1 THEN x.data[k + 1] ELSE x.data[k - 1]]

DistinctParams ==
    \A i, j \in 1..Len(sgd.params) : sgd.params[i] = sgd.params[j] => i = j

\* C26: SGD.step() sets the value of each parameter to value - lr * derivative
\* and leaves the derivative of each parameter as it was
C26_StepConsumesDerivatives ==
    [][(SGDStep /\ DistinctParams) =>
          \A i \in 1..Len(sgd.params) :
              LET x == duals[sgd.params[i]]
              IN  /\ duals'[sgd.params[i]].der = x.der
                  /\ duals'[sgd.params[i]].val.q =
                         QSub(x.val.q, QMul(sgd.lr.q, x.der.x[1]))]_vars

\* node n keeps its value and has neither edges nor a cached gradient
Cleared(n) ==
    /\ nodes'[n].value = nodes[n].value
    /\ nodes'[n].children = <<>>
    /\ nodes'[n].grad_value = None

\* C27: clear() on a node empties its children, unsets its grad_value and
\* keeps its value; every other node, the other input and the intermediate
\* nodes included, keeps its children, its grad_value and its value
C27_ClearIsLocal ==
    [][\A n \in NodeIds :
          Clear(n) =>
              /\ Len(nodes') = Len(nodes)
              /\ Cleared(n)
              /\ \A m \in NodeIds \ {n} : nodes'[m] = nodes[m]]_vars

\* clear() on the input 1 discarded its edges and its gradient, while the
\* other input and the product still hold their edges and gradients
C27_Witness ==
    /\ 1 \in recycled
    /\ nodes[1].children = <<>> /\ nodes[1].grad_value = None
    /\ Len(nodes) = 3 /\ inputs = {1, 2}
    /\ nodes[2].children # <<>> /\ nodes[2].grad_value # None
    /\ nodes[3].grad_value = One

(***************************************************************************)
(* Dead sub-expressions and the order of seeding                           *)
(***************************************************************************)
\* a seeded output can be reached from n over the recorded edges
RECURSIVE Reaches(_)
Reaches(n) ==
    \/ Seeded(n)
    \/ \E k \in 1..Len(nodes[n].children) : Reaches(nodes[n].children[k][2])

\* the sum over the paths from n to a seeded output, the edges to nodes that
\* reach no seeded output left out
RECURSIVE LiveSum(_), LiveSumFrom(_, _)
LiveSum(n) == IF Seeded(n) THEN One ELSE LiveSumFrom(nodes[n].children, 1)
LiveSumFrom(ch, i) ==
    IF i > Len(ch) THEN Zero
    ELSE IF Reaches(ch[i][2])
    THEN QAdd(QMul(ch[i][1], LiveSum(ch[i][2])), LiveSumFrom(ch, i + 1))
    ELSE LiveSumFrom(ch, i + 1)

\* C28: in a pass that starts with nothing cached but the seeds, grad() on a
\* node without children that is no seeded output returns 0, every node that
\* reaches no seeded output gets the gradient 0 when it is visited, and the
\* gradient returned is the sum over the paths to the seeded outputs only.
C28_DeadNodesAddNothing ==
    [][\A n \in NodeIds :
        (Grad(n) /\ FreshPass /\ nodes[n].grad_value = None) =>
            /\ nodes[n].children = <<>> => ret' = [n |-> n, v |-> Zero]
            /\ \A i \in NodeIds :
                  (~Reaches(i) /\ nodes'[i].grad_value # None)
                      => nodes'[i].grad_value = Zero
            /\ ret'.v = LiveSum(n)]_vars

\* C28 witness: the input x has edges to a node p that leads to no seeded
\* output and to the seeded output z; grad() visited p, cached 0 in it and
\* returned the weight of the edge to z alone, which is not 0
C28_Witness ==
    \E x \in inputs, p, z \in NodeIds :
        /\ \E j, k \in 1..Len(nodes[x].children) :
              /\ nodes[x].children[j][2] = p
              /\ nodes[x].children[j][1] # Zero
              /\ nodes[x].children[k][2] = z
        /\ nodes[p].children = <<>> /\ nodes[p].grad_value = Zero
        /\ evals[p] = 1
        /\ Seeded(z)
        /\ evals[x] = 1
        /\ ret.n = x /\ ret.v # Zero /\ ret.v = nodes[x].grad_value

\* C29: a cached gradient stays as it is until clear() is called on its node
\* (or the node itself is seeded): seeding an output changes the cached
\* gradient of no other node, and grad() on a node that holds a cached
\* gradient returns it, whether or not an output was seeded in between.
C29_SeedingKeepsCached ==
    [][\A n \in NodeIds :
        /\ \A z \in NodeIds \ {n} :
              Seed(z) => nodes'[n].grad_value = nodes[n].grad_value
        /\ (nodes[n].grad_value # None
                /\ nodes'[n].grad_value # nodes[n].grad_value)
              => (Clear(n) \/ Seed(n))
        /\ (Grad(n) /\ nodes[n].grad_value # None)
              => ret' = [n |-> n, v |-> nodes[n].grad_value]]_vars

\* C29 witness: grad() on x ran before the output z was seeded and cached 0;
\* z is seeded now, the sum over the paths from x to z is not 0, and the
\* grad() on x that followed the seeding returned the cached 0
C29_Witness ==
    \E x \in inputs, z \in NodeIds :
        /\ Seeded(z)
        /\ Reaches(x)
        /\ PathSum(x) # Zero
        /\ evals[x] = 1
        /\ nodes[x].grad_value = Zero
        /\ ret = [n |-> x, v |-> Zero]

====
